---------------------------- MODULE Spec2Model ----------------------------
(***************************************************************************)
(* Firmware registry: the access gate (package auth) in front of every     *)
(* firmware and webhook route.                                              *)
(*                                                                         *)
(* A request is handled by RequireAdmin or RequireDevice, which try, in    *)
(* this order, the IP allowlist, JWT verification and the static API key.  *)
(* The position of the handler is pc; the blocking call of the handler     *)
(* (the key-set fetch inside OIDCVerifier.VerifyToken) is the only place   *)
(* where it waits for the outside world.                                   *)
(*                                                                         *)
(* Strings are modelled by their structure: an address text by its form    *)
(* and its host, a header value by its space-separated parts, an IP by its *)
(* bits (V4Bits bits for the 4-byte form, V6Bits for the 16-byte form).    *)
(***************************************************************************)
EXTENDS Integers, Sequences, FiniteSets, TLC

(***************************************************************************)
(* Bounds                                                                  *)
(***************************************************************************)
\* number of bits of the 4-byte form of an IP (net.IPv4len, scaled down)
V4Bits == 1

\* number of entries of the allowlist in the allowlist-only runs (SpecIP)
MaxEntries == 1

\* cfg.Webhooks.Retries of the runs of Dispatch with its workers
MaxRetries == 1

\* largest cfg.Webhooks.Retries of the runs of one delivery on its own
MaxDeliverRetries == 2

\* rows of the webhook table, and delivery goroutines alive at a time
MaxHooks == 2

\* Dispatch calls of a run
MaxDispatches == 2

\* webhook create, update and delete operations of a run
MaxAdminOps == 2

\* bits of the 16-byte form: the v4-in-v6 prefix (one bit here) and the v4 bits
V6Bits == V4Bits + 1

Bit == {0, 1}

BitsOf(n) == [1..n -> Bit]

\* Go's v4InV6Prefix (zeros, then ones): here its last bit only
V4InV6Prefix == <<1>>

(***************************************************************************)
(* package net, as isIPWhitelisted and main use it                         *)
(***************************************************************************)
\* a nil net.IP (a slice of length 0)
NilIP == <<>>

\* the texts a host can be: dotted quad, IPv6 text, IPv6 text with a zone,
\* or something that is no IP at all
HostTexts ==
    [k : {"v4"}, a : BitsOf(V4Bits)] \cup [k : {"v6"}, a : BitsOf(V6Bits)]
        \cup [k : {"zone"}, a : {[i \in 1..V6Bits |-> 0]}]
        \cup [k : {"name"}, a : {<<>>}]

\* the texts r.RemoteAddr can be: "host:port" ("[host]:port" for IPv6),
\* "host" with no port, "[host]" with no port
AddrTexts == [f : {"hostport", "bare", "bracket"}, h : HostTexts]

\* net.SplitHostPort: the host of "host:port" and of "[host]:port"; an error
\* for a text with no port (missing port, or too many colons)
SplitHostPort(s) ==
    IF s.f = "hostport"
    THEN [host |-> [f |-> "bare", h |-> s.h], err |-> FALSE]
    ELSE [host |-> s, err |-> TRUE]

\* a parser that, unlike net.ParseIP, accepts a zoned IPv6 text and drops the
\* zone (netip.ParseAddr followed by a conversion does)
ParseIPDropZone(s) ==
    IF s.f # "bare" THEN NilIP
    ELSE IF s.h.k = "v4" THEN V4InV6Prefix \o s.h.a
    ELSE IF s.h.k \in {"v6", "zone"} THEN s.h.a
    ELSE NilIP

\* net.ParseIP: the 16-byte form of an IPv4 or IPv6 text, nil for any other
\* text (brackets, a zone, a name)
ParseIP(s) ==
    IF s.f # "bare" THEN NilIP
    ELSE IF s.h.k = "v4" THEN V4InV6Prefix \o s.h.a
    ELSE IF s.h.k = "v6" THEN s.h.a
    ELSE NilIP

\* IP.To4: the 4-byte form of a 4-byte IP or of a 16-byte IP with the
\* v4-in-v6 prefix, nil otherwise
To4(ip) ==
    IF Len(ip) = V4Bits THEN ip
    ELSE IF Len(ip) = V6Bits /\ SubSeq(ip, 1, Len(V4InV6Prefix)) = V4InV6Prefix
         THEN SubSeq(ip, Len(V4InV6Prefix) + 1, V6Bits)
    ELSE NilIP

\* IP.Equal
IPEqual(ip, x) ==
    IF Len(ip) = Len(x) THEN ip = x
    ELSE IF Len(ip) = V4Bits /\ Len(x) = V6Bits THEN To4(x) = ip
    ELSE IF Len(ip) = V6Bits /\ Len(x) = V4Bits THEN To4(ip) = x
    ELSE FALSE

\* a net.IPMask of `len` bits whose first `ones` bits are set
MaskBit(m, i) == IF i <= m.ones THEN 1 ELSE 0

\* IP.Mask(mask)
IPMask(ip, m) ==
    LET p == IF m.len = V4Bits /\ Len(ip) = V6Bits /\ To4(ip) # NilIP
             THEN To4(ip) ELSE ip
    IN  IF Len(p) # m.len THEN NilIP
        ELSE [i \in 1..Len(p) |-> IF MaskBit(m, i) = 1 THEN p[i] ELSE 0]

\* networkNumberAndMask of IPNet.Contains
NetworkNumberAndMask(n) ==
    LET ip4 == To4(n.IP)
        ip  == IF ip4 # NilIP THEN ip4 ELSE n.IP
    IN  IF ip4 = NilIP /\ Len(ip) # V6Bits THEN [ip |-> NilIP, off |-> 0]
        ELSE IF n.Mask.len = V4Bits
             THEN IF Len(ip) # V4Bits THEN [ip |-> NilIP, off |-> 0]
                  ELSE [ip |-> ip, off |-> 0]
        ELSE IF Len(ip) = V4Bits
             THEN [ip |-> ip, off |-> V6Bits - V4Bits]
        ELSE [ip |-> ip, off |-> 0]

\* IPNet.Contains: the IP, in its 4-byte form when it has one, has the
\* length of the network number and agrees with it on the masked bits
Contains(n, ip) ==
    LET nn == NetworkNumberAndMask(n)
        x  == IF To4(ip) # NilIP THEN To4(ip) ELSE ip
    IN  /\ Len(x) = Len(nn.ip)
        /\ \A i \in 1..Len(x) :
              MaskBit(n.Mask, i + nn.off) = 1 => nn.ip[i] = x[i]

\* net.ParseCIDR of "host/ones": the network, or an error
ParseCIDR(e) ==
    LET ip16 == ParseIP([f |-> "bare", h |-> e.h])
        len  == IF e.h.k = "v4" THEN V4Bits ELSE V6Bits
        m    == [len |-> len, ones |-> e.ones]
    IN  IF ip16 = NilIP \/ e.ones > len THEN [err |-> TRUE]
        ELSE [err |-> FALSE, net |-> [IP |-> IPMask(ip16, m), Mask |-> m]]


(***************************************************************************)
(* main: the FW_NOAUTH_IPS list, split on commas and trimmed               *)
(***************************************************************************)
\* the texts an entry of the list can be: an IP text, "host/ones", or empty
EntryTexts ==
    [t : {"ip"}, h : HostTexts, ones : {0}]
        \cup [t : {"cidr"}, h : {x \in HostTexts : x.k \in {"v4", "v6"}},
              ones : 0..V6Bits]
        \cup [t : {"empty"}, h : {[k |-> "name", a |-> <<>>]}, ones : {0}]

\* the loop of main over the entries: an entry with "/" is parsed as a
\* subnet, any other as an IP; an empty or invalid entry is skipped
RECURSIVE ParseNoAuthIPs(_)
ParseNoAuthIPs(entries) ==
    IF entries = <<>> THEN [ips |-> <<>>, subnets |-> <<>>]
    ELSE LET rest  == ParseNoAuthIPs(Tail(entries))
             entry == Head(entries)
         IN  IF entry.t = "empty" THEN rest
             ELSE IF entry.t = "cidr"
                  THEN LET c == ParseCIDR(entry)
                       IN  IF c.err THEN rest
                           ELSE [rest EXCEPT !.subnets = <<c.net>> \o @]
             ELSE LET ip == ParseIP([f |-> "bare", h |-> entry.h])
                  IN  IF ip = NilIP THEN rest
                      ELSE [rest EXCEPT !.ips = <<ip>> \o @]

\* lists of at most n entries
EntryLists(n) == UNION {[1..k -> EntryTexts] : k \in 0..n}

(***************************************************************************)
(* The OIDC verifier and the tokens                                        *)
(***************************************************************************)
\* a nil *OIDCVerifier
NilVerifier == [nil |-> TRUE, adminRole |-> "", deviceRole |-> ""]

\* the role names of cfg.OIDC.AdminRole and cfg.OIDC.DeviceRole
RolePairs == {<<"admin", "device">>, <<"", "">>}

\* what a bearer token is: whether its signature, issuer, audience and
\* expiry verify, whether its claims decode, and the roles of its realm-level
\* list and of its per-client lists (absent: no such list in the token)
TokenInfo ==
    [tBad     |-> [valid |-> FALSE, decodes |-> TRUE,
                   realm |-> {"admin", "device"}, client |-> {}, absent |-> {"client"}],
     tNoRoles |-> [valid |-> TRUE, decodes |-> TRUE,
                   realm |-> {}, client |-> {}, absent |-> {"realm", "client"}],
     tAdmin   |-> [valid |-> TRUE, decodes |-> TRUE,
                   realm |-> {"admin"}, client |-> {}, absent |-> {"client"}],
     tDevice  |-> [valid |-> TRUE, decodes |-> TRUE,
                   realm |-> {}, client |-> {"device"}, absent |-> {"realm"}],
     tGarbled |-> [valid |-> TRUE, decodes |-> FALSE,
                   realm |-> {}, client |-> {}, absent |-> {"realm", "client"}]]

Tokens == DOMAIN TokenInfo

\* OIDCVerifier.VerifyToken, once the key set is at hand or its fetch failed:
\* an error for a failed fetch and for a token that does not verify
VerifyTokenErr(token, fetchFailed) == fetchFailed \/ ~TokenInfo[token].valid

\* OIDCVerifier.HasRole: no role required, or the role is in one of the
\* token's role lists; an error when the claims do not decode
HasRole(token, role) ==
    IF role = "" THEN [has |-> TRUE, err |-> FALSE]
    ELSE IF ~TokenInfo[token].decodes THEN [has |-> FALSE, err |-> TRUE]
    ELSE [has |-> role \in (TokenInfo[token].realm \cup TokenInfo[token].client),
          err |-> FALSE]

(***************************************************************************)
(* State                                                                   *)
(***************************************************************************)
VARIABLES
    \* cfg.NoAuthIPs, split on commas: the configured allowlist
    cfgNoAuthIPs,
    \* the Auth value main builds: immutable once the server listens
    AdminKey, DeviceKey, NoAuthIPs, NoAuthSubnets, OIDCEnabled, OIDCVerifier,
    \* the request being handled
    pc,          \* position of the gate: idle, ip, jwt, fetch, key, done
    gate,        \* "admin" (RequireAdmin) or "device" (RequireDevice)
    remoteAddr,  \* r.RemoteAddr
    hdr,         \* r.Header, as far as the gate has read it: name -> values
    trace,       \* the calls made and the lines logged for this request
    authType,    \* the strategy that let the request in ("none": not let in)
    nextCalls,   \* how many times next(w, r) has been called
    status,      \* the status the gate itself wrote (0: none)
    body         \* the body the gate itself wrote

config == <<cfgNoAuthIPs, AdminKey, DeviceKey, NoAuthIPs, NoAuthSubnets, OIDCEnabled, OIDCVerifier>>

request == <<pc, gate, remoteAddr, hdr, trace, authType, nextCalls, status, body>>

vars == <<config, request>>

VARIABLES
    \* webhook.Service, as main builds it
    Secret, Retries, TimeoutSec,
    \* the webhook table behind webhook.Repository: id -> row or NoRow
    repo,
    adminOps,       \* create, update and delete operations done so far
    \* the upload or delete handler and the Dispatch call it makes
    hpc,            \* idle, dispatch (about to call Dispatch), loop, respond
    event,          \* the event name given to Dispatch
    hooks,          \* Dispatch: the rows s.Repo.List() returned
    whBody,         \* Dispatch: the marshalled payload (body)
    idx,            \* Dispatch: position of the range loop in hooks
    dispatchCount,  \* Dispatch: dispatchCount
    launched,       \* the ids of the rows this Dispatch launched a worker for
    dlog,           \* the lines this Dispatch call has logged
    dispatches,     \* Dispatch calls so far (the clock of the payload's time)
    response,       \* what the client of the handler has got
    \* the goroutines running Service.deliver, in launch order
    workers,
    crashed         \* the process has died of a panic

\* the HTTP API: the request the mux is serving and the firmware it stores
VARIABLES
    route,          \* the request routed last, and what its handler did
    files,          \* the versions whose binary is in the storage directory
    records         \* the versions that have a metadata row

api == <<route, files, records>>

service == <<Secret, Retries, TimeoutSec>>

handler == <<hpc, event, hooks, whBody, idx, dispatchCount, launched, dlog, dispatches, response>>

hookVars == <<service, repo, adminOps, handler, workers, crashed, api>>

allVars == <<vars, hookVars>>

NoRow == [absent |-> TRUE]

\* defaults: c.Webhooks.TimeoutSec
DefaultTimeoutSec == 5

\* no webhook, no upload or delete in progress, no delivery goroutine
HooksQuiet ==
    /\ repo = [id \in 1..MaxHooks |-> NoRow]
    /\ adminOps = 0
    /\ hpc = "idle"
    /\ event = ""
    /\ hooks = <<>>
    /\ whBody = <<>>
    /\ idx = 0
    /\ dispatchCount = 0
    /\ launched = <<>>
    /\ dlog = <<>>
    /\ dispatches = 0
    /\ response = "none"
    /\ workers = <<>>
    /\ crashed = FALSE

\* no request routed yet
\* a WebhookDTO decoded from a body that names no field
NoDto == [URL |-> "", Events |-> <<>>, Enabled |-> FALSE]

\* route holds the method and path of the request, the gate and the method
\* ServeHTTP wrapped in it (next) with its version or id, and then the
\* handler method that ran (op), its response, the event it gave to Dispatch
\* and the DTO it decoded
NoRoute ==
    [method |-> "", path |-> <<>>, gate |-> "", next |-> "", v |-> "", id |-> 0,
     op |-> "", resp |-> "", event |-> "", dto |-> NoDto]

\* no request routed, no firmware stored
NoAPI == route = NoRoute /\ files = {} /\ records = {}

\* the runs of the access gate leave the webhook service out
NoService ==
    Secret = "" /\ Retries = 0 /\ TimeoutSec = DefaultTimeoutSec /\ HooksQuiet /\ NoAPI

Gates == {"admin", "device"}

\* a string is modelled by its parts between spaces: "" has one empty part
EmptyString == <<"">>

\* the keys of cfg.AdminKey and cfg.DeviceKey
KeyA == <<"ka">>

KeyD == <<"kd">>

\* the values of a header of the request: none, or one string; the key
\* headers carry a key, the empty string or nothing
KeyHeaderValues == {<<>>, <<EmptyString>>, <<KeyA>>, <<KeyD>>}

AuthorizationValues ==
    {<<>>, <<EmptyString>>, <<<<"Basic", "tAdmin">>>>, <<<<"Bearer">>>>,
     <<<<"BEARER", "tAdmin">>>>}
        \cup {<<<<"Bearer", t>>>> : t \in Tokens}

\* http.Header.Get: the first value of the header, "" when it has none
HeaderGet(values) == IF values = <<>> THEN EmptyString ELSE values[1]

\* strings.ToLower, on the scheme words of the Authorization values
ToLower(w) ==
    IF w \in {"Bearer", "BEARER", "bearer"} THEN "bearer"
    ELSE IF w = "Basic" THEN "basic"
    ELSE w

(***************************************************************************)
(* package auth                                                            *)
(***************************************************************************)
\* the loop over a.NoAuthIPs
RECURSIVE AnyIPEqual(_, _)
AnyIPEqual(clientIP, ips) ==
    IF ips = <<>> THEN FALSE
    ELSE IF IPEqual(clientIP, Head(ips)) THEN TRUE
    ELSE AnyIPEqual(clientIP, Tail(ips))

\* the loop over a.NoAuthSubnets
RECURSIVE AnySubnetContains(_, _)
AnySubnetContains(clientIP, subnets) ==
    IF subnets = <<>> THEN FALSE
    ELSE IF Contains(Head(subnets), clientIP) THEN TRUE
    ELSE AnySubnetContains(clientIP, Tail(subnets))

\* isIPWhitelisted without the SplitHostPort step: RemoteAddr parsed as it is
isIPWhitelistedNoSplit(ips, subnets, addr) ==
    IF Len(ips) = 0 /\ Len(subnets) = 0 THEN FALSE
    ELSE LET clientIP == ParseIP(addr)
         IN  IF clientIP = NilIP THEN FALSE
             ELSE IF AnyIPEqual(clientIP, ips) THEN TRUE
             ELSE AnySubnetContains(clientIP, subnets)

\* Auth.isIPWhitelisted
isIPWhitelisted(ips, subnets, addr) ==
    IF Len(ips) = 0 /\ Len(subnets) = 0 THEN FALSE
    ELSE LET split    == SplitHostPort(addr)
             host     == IF split.err THEN addr ELSE split.host
             clientIP == ParseIP(host)
         IN  IF clientIP = NilIP THEN FALSE
             ELSE IF AnyIPEqual(clientIP, ips) THEN TRUE
             ELSE AnySubnetContains(clientIP, subnets)

\* the token taken after a "bearer" prefix, however many parts follow
ExtractBearerTokenPrefix(authHeader) ==
    IF Len(authHeader) >= 2 /\ ToLower(authHeader[1]) = "bearer"
    THEN authHeader[2]
    ELSE ""

\* ExtractBearerToken
ExtractBearerToken(authHeader) ==
    IF Len(authHeader) = 2 /\ ToLower(authHeader[1]) = "bearer"
    THEN authHeader[2]
    ELSE ""

\* verifyJWT up to the call of VerifyToken: the token to verify, "" when the
\* step fails before it
BearerOf(authHeader) ==
    IF authHeader = EmptyString THEN "" ELSE ExtractBearerToken(authHeader)

\* verifyJWT with the error of VerifyToken logged but not returned on
AfterVerifyTokenErrIgnored(token, err, requiredRole) ==
    LET r == HasRole(token, requiredRole)
        logged == IF err THEN <<"JWT verification failed">> ELSE <<>>
    IN  IF r.err
        THEN [calls |-> logged \o <<"HasRole", "Failed to check role in JWT">>,
              ok |-> FALSE]
        ELSE IF ~r.has /\ requiredRole # ""
             THEN [calls |-> logged \o <<"HasRole", "User missing required role">>,
                   ok |-> FALSE]
        ELSE [calls |-> logged \o <<"HasRole">>, ok |-> TRUE]

\* verifyJWT asking that the required role be among the token's roles, with
\* no exemption for an empty required role
AfterVerifyTokenRoleListed(token, err, requiredRole) ==
    IF err THEN [calls |-> <<"JWT verification failed">>, ok |-> FALSE]
    ELSE LET r == HasRole(token, requiredRole)
         IN  IF r.err
             THEN [calls |-> <<"HasRole", "Failed to check role in JWT">>,
                   ok |-> FALSE]
             ELSE IF requiredRole \notin TokenInfo[token].realm \cup TokenInfo[token].client
                  THEN [calls |-> <<"HasRole", "User missing required role">>,
                        ok |-> FALSE]
             ELSE [calls |-> <<"HasRole">>, ok |-> TRUE]

\* verifyJWT from the return of VerifyToken: the calls made, the lines
\* logged, and the result
AfterVerifyToken(token, err, requiredRole) ==
    IF err THEN [calls |-> <<"JWT verification failed">>, ok |-> FALSE]
    ELSE LET r == HasRole(token, requiredRole)
         IN  IF r.err
             THEN [calls |-> <<"HasRole", "Failed to check role in JWT">>,
                   ok |-> FALSE]
             ELSE IF ~r.has /\ requiredRole # ""
                  THEN [calls |-> <<"HasRole", "User missing required role">>,
                        ok |-> FALSE]
             ELSE [calls |-> <<"HasRole">>, ok |-> TRUE]

\* the role the gate asks of a token
RequiredRole(g) == IF g = "admin" THEN OIDCVerifier.adminRole ELSE OIDCVerifier.deviceRole

\* both gates comparing with the admin key
ConfiguredKeyAdminOnly(g) == AdminKey

\* both gates comparing with the device key
ConfiguredKeyDeviceOnly(g) == DeviceKey

\* the key the gate compares and the header it reads
ConfiguredKey(g) == IF g = "admin" THEN AdminKey ELSE DeviceKey

KeyHeaderName(g) == IF g = "admin" THEN "X-Admin-Key" ELSE "X-Device-Key"

\* the body of the 401 the gate writes
DeniedBody(g) == IF g = "admin" THEN "unauthorized (admin)" ELSE "unauthorized (device)"

StatusUnauthorized == 401

(***************************************************************************)
(* Start of the server                                                     *)
(***************************************************************************)
\* main: the Auth value from the configuration. OIDC is on only when it is
\* enabled and NewOIDCVerifier succeeded; otherwise the verifier stays nil.
MainAuth(entries, adminKey, deviceKey, oidcOn, roles) ==
    LET lists == ParseNoAuthIPs(entries)
    IN  /\ cfgNoAuthIPs = entries
        /\ AdminKey = adminKey
        /\ DeviceKey = deviceKey
        /\ NoAuthIPs = lists.ips
        /\ NoAuthSubnets = lists.subnets
        /\ OIDCEnabled = oidcOn
        /\ OIDCVerifier = IF oidcOn
                          THEN [nil |-> FALSE, adminRole |-> roles[1],
                                deviceRole |-> roles[2]]
                          ELSE NilVerifier

\* no request is being handled
Idle ==
    /\ pc = "idle"
    /\ gate = "admin"
    /\ remoteAddr = [f |-> "bare", h |-> [k |-> "name", a |-> <<>>]]
    /\ hdr = <<>>
    /\ trace = <<>>
    /\ authType = "none"
    /\ nextCalls = 0
    /\ status = 0
    /\ body = ""

Init ==
    /\ \E entries \in EntryLists(1), adminKey \in {EmptyString, KeyA},
          deviceKey \in {EmptyString, KeyD}, oidcOn \in BOOLEAN, roles \in RolePairs :
          /\ (~oidcOn => roles = <<"", "">>)
          /\ MainAuth(entries, adminKey, deviceKey, oidcOn, roles)
    /\ Idle
    /\ NoService

(***************************************************************************)
(* RequireAdmin and RequireDevice                                          *)
(***************************************************************************)
\* a request arrives at one of the two gates
Receive(g, addr) ==
    /\ pc = "idle"
    /\ pc' = "ip"
    /\ gate' = g
    /\ remoteAddr' = addr
    /\ UNCHANGED <<hdr, trace, authType, nextCalls, status, body, config>>
    /\ UNCHANGED hookVars

\* next(w, r): the gated handler runs
Allow(how, calls) ==
    /\ trace' = trace \o calls \o <<"next">>
    /\ authType' = how
    /\ nextCalls' = nextCalls + 1
    /\ pc' = "done"
    /\ UNCHANGED <<status, body>>

\* a denial with no return after it: the 401 is written and the wrapped
\* handler runs all the same
DenyThenServe(calls) ==
    /\ trace' = trace \o calls \o <<"http.Error", "next">>
    /\ status' = StatusUnauthorized
    /\ body' = DeniedBody(gate)
    /\ nextCalls' = nextCalls + 1
    /\ pc' = "done"
    /\ UNCHANGED authType

\* a denial whose body tells which check failed
DenyWithReason(calls) ==
    /\ trace' = trace \o calls \o <<"http.Error">>
    /\ status' = StatusUnauthorized
    /\ body' = IF calls = <<>> THEN "unauthorized: no key configured"
               ELSE "unauthorized: invalid key"
    /\ pc' = "done"
    /\ UNCHANGED <<authType, nextCalls>>

\* http.Error(w, "unauthorized (...)", http.StatusUnauthorized)
Deny(calls) ==
    /\ trace' = trace \o calls \o <<"http.Error">>
    /\ status' = StatusUnauthorized
    /\ body' = DeniedBody(gate)
    /\ pc' = "done"
    /\ UNCHANGED <<authType, nextCalls>>

\* the gate moves on to the next strategy
GoOn(to, calls) ==
    /\ trace' = trace \o calls
    /\ pc' = to
    /\ UNCHANGED <<authType, nextCalls, status, body>>

\* the IP allowlist with no return after next.ServeHTTP: the handler is
\* served and the gate goes on to the credentials
CheckIPNoReturn ==
    /\ pc = "ip"
    /\ trace' = trace \o <<"isIPWhitelisted">>
                    \o IF isIPWhitelisted(NoAuthIPs, NoAuthSubnets, remoteAddr)
                       THEN <<"next">> ELSE <<>>
    /\ IF isIPWhitelisted(NoAuthIPs, NoAuthSubnets, remoteAddr)
       THEN authType' = "ip_whitelist" /\ nextCalls' = nextCalls + 1
       ELSE UNCHANGED <<authType, nextCalls>>
    /\ pc' = IF OIDCEnabled /\ ~OIDCVerifier.nil THEN "jwt" ELSE "key"
    /\ UNCHANGED <<status, body, gate, remoteAddr, hdr, config>>
    /\ UNCHANGED hookVars

\* the IP allowlist
CheckIP ==
    /\ pc = "ip"
    /\ IF isIPWhitelisted(NoAuthIPs, NoAuthSubnets, remoteAddr)
       THEN Allow("ip_whitelist", <<"isIPWhitelisted">>)
       ELSE IF OIDCEnabled /\ ~OIDCVerifier.nil
            THEN GoOn("jwt", <<"isIPWhitelisted">>)
            ELSE GoOn("key", <<"isIPWhitelisted">>)
    /\ UNCHANGED <<gate, remoteAddr, hdr, config>>
    /\ UNCHANGED hookVars

\* verifyJWT: to its end when there is no token to verify or the key set is
\* cached; to the key-set fetch of VerifyToken otherwise
TryJWT(values) ==
    /\ pc = "jwt"
    /\ hdr' = [n \in {"Authorization"} |-> values]
    /\ LET token == BearerOf(HeaderGet(values))
           r     == AfterVerifyToken(token, VerifyTokenErr(token, FALSE),
                                     RequiredRole(gate))
       IN  IF token = "" THEN GoOn("key", <<"verifyJWT">>)
           ELSE \/ GoOn("fetch", <<"verifyJWT", "VerifyToken">>)
                \/ IF r.ok
                   THEN Allow("jwt", <<"verifyJWT", "VerifyToken">> \o r.calls)
                   ELSE GoOn("key", <<"verifyJWT", "VerifyToken">> \o r.calls)
    /\ UNCHANGED <<gate, remoteAddr, config>>
    /\ UNCHANGED hookVars

\* the key-set endpoint answers, with the keys or with an error, and
\* verifyJWT runs to its end
FetchAnswer(failed) ==
    /\ pc = "fetch"
    /\ LET token == BearerOf(HeaderGet(hdr["Authorization"]))
           r     == AfterVerifyToken(token, VerifyTokenErr(token, failed),
                                     RequiredRole(gate))
       IN  IF r.ok THEN Allow("jwt", r.calls) ELSE GoOn("key", r.calls)
    /\ UNCHANGED <<gate, remoteAddr, hdr, config>>
    /\ UNCHANGED hookVars

\* the static key compared without asking that a key be configured
CheckKeyNoEmptyGuard ==
    /\ pc = "key"
    /\ \E values \in KeyHeaderValues :
          /\ hdr' = [n \in DOMAIN hdr \cup {KeyHeaderName(gate)} |->
                        IF n = KeyHeaderName(gate) THEN values ELSE hdr[n]]
          /\ IF HeaderGet(values) = ConfiguredKey(gate)
             THEN Allow("api_key", <<"keyCompare">>)
             ELSE Deny(<<"keyCompare">>)
    /\ UNCHANGED <<gate, remoteAddr, config>>
    /\ UNCHANGED hookVars

\* the static key: the header is read only when a key is configured
CheckKey ==
    /\ pc = "key"
    /\ IF ConfiguredKey(gate) # EmptyString
       THEN \E values \in KeyHeaderValues :
               /\ hdr' = [n \in DOMAIN hdr \cup {KeyHeaderName(gate)} |->
                             IF n = KeyHeaderName(gate) THEN values ELSE hdr[n]]
               /\ IF HeaderGet(values) = ConfiguredKey(gate)
                  THEN Allow("api_key", <<"keyCompare">>)
                  ELSE Deny(<<"keyCompare">>)
       ELSE /\ hdr' = hdr
            /\ Deny(<<>>)
    /\ UNCHANGED <<gate, remoteAddr, config>>
    /\ UNCHANGED hookVars

\* the response is sent and the server waits for the next request
Finish ==
    /\ pc = "done"
    /\ pc' = "idle"
    /\ gate' = "admin"
    /\ remoteAddr' = [f |-> "bare", h |-> [k |-> "name", a |-> <<>>]]
    /\ hdr' = <<>>
    /\ trace' = <<>>
    /\ authType' = "none"
    /\ nextCalls' = 0
    /\ status' = 0
    /\ body' = ""
    /\ UNCHANGED config
    /\ UNCHANGED hookVars

Next ==
    \/ \E g \in Gates, addr \in AddrTexts : Receive(g, addr)
    \/ CheckIP
    \/ \E values \in AuthorizationValues : TryJWT(values)
    \/ \E failed \in BOOLEAN : FetchAnswer(failed)
    \/ CheckKey
    \/ Finish

Spec == Init /\ [][Next]_vars

\* the allowlist-only runs: no key, no OIDC, up to MaxEntries entries
InitIP ==
    /\ \E entries \in EntryLists(MaxEntries) :
          MainAuth(entries, EmptyString, EmptyString, FALSE, <<"", "">>)
    /\ Idle
    /\ NoService

NextIP ==
    \/ \E g \in Gates, addr \in AddrTexts : Receive(g, addr)
    \/ CheckIP
    \/ CheckKey
    \/ Finish

SpecIP == InitIP /\ [][NextIP]_vars

\* the runs with two distinct keys configured, OIDC off and no allowlist
InitKeys ==
    /\ MainAuth(<<>>, KeyA, KeyD, FALSE, <<"", "">>)
    /\ Idle
    /\ NoService

SpecKeys == InitKeys /\ [][NextIP]_vars

\* Authorization headers of every shape: absent, empty, one part, another
\* scheme, no scheme, "bearer" in three letter cases, an empty token
\* ("Bearer "), two spaces ("Bearer  tAdmin"), a third part
AuthorizationTexts ==
    {<<>>, <<EmptyString>>, <<<<"Bearer">>>>, <<<<"tAdmin">>>>,
     <<<<"Basic", "tAdmin">>>>, <<<<"Bearer", "">>>>,
     <<<<"Bearer", "", "tAdmin">>>>, <<<<"Bearer", "tAdmin", "x">>>>,
     <<<<"bearer", "tDevice">>>>, <<<<"BEARER", "tAdmin">>>>,
     <<<<"Bearer", "tAdmin">>>>, <<<<"Bearer", "tBad">>>>}

\* the runs of the JWT step: OIDC on, no allowlist, every key configuration
InitJWT ==
    /\ \E adminKey \in {EmptyString, KeyA}, deviceKey \in {EmptyString, KeyD},
          roles \in RolePairs :
          MainAuth(<<>>, adminKey, deviceKey, TRUE, roles)
    /\ Idle
    /\ NoService

NextJWT ==
    \/ \E g \in Gates, addr \in AddrTexts : Receive(g, addr)
    \/ CheckIP
    \/ \E values \in AuthorizationTexts : TryJWT(values)
    \/ \E failed \in BOOLEAN : FetchAnswer(failed)
    \/ CheckKey
    \/ Finish

SpecJWT == InitJWT /\ [][NextJWT]_vars

\* the gate's own steps are taken when they can be; nothing makes the
\* key-set endpoint answer, and nothing makes a client send a request
FairSpec ==
    /\ Init
    /\ [][Next]_vars
    /\ WF_vars(CheckIP)
    /\ WF_vars(\E values \in AuthorizationValues : TryJWT(values))
    /\ WF_vars(CheckKey)
    /\ WF_vars(Finish)

(***************************************************************************)
(* What the properties speak of                                            *)
(***************************************************************************)
Range(f) == {f[i] : i \in DOMAIN f}

\* the strategies evaluated so far, in order
StrategyCalls == {"isIPWhitelisted", "verifyJWT", "keyCompare"}

IsStrategy(c) == c \in StrategyCalls

Strategies == SelectSeq(trace, IsStrategy)

\* the gate has decided
Decided == pc = "done"

Allowed == pc = "done" /\ nextCalls >= 1

Denied == pc = "done" /\ nextCalls = 0

\* the IP a host text stands for: family and bits, an IPv4-mapped IPv6
\* address being the IPv4 address it maps
NoIP == [fam |-> 0, bits |-> <<>>]

HostIP(h) ==
    IF h.k = "v4" THEN [fam |-> 4, bits |-> h.a]
    ELSE IF h.k = "v6"
         THEN IF \A i \in 1..Len(V4InV6Prefix) : h.a[i] = V4InV6Prefix[i]
              THEN [fam |-> 4,
                    bits |-> [i \in 1..V4Bits |-> h.a[i + Len(V4InV6Prefix)]]]
              ELSE [fam |-> 6, bits |-> h.a]
    ELSE NoIP

\* the IP of the peer, its port stripped; NoIP when the text is no IP
PeerIP(addr) == IF addr.f = "bracket" THEN NoIP ELSE HostIP(addr.h)

HasPrefix(bits, base, n) == \A i \in 1..n : bits[i] = base[i]

\* the peer IP equals the configured literal, or lies inside the configured
\* subnet (an IPv6 subnet inside the IPv4-mapped range is an IPv4 subnet)
EntryCovers(e, ip) ==
    IF e.t = "ip" THEN HostIP(e.h) # NoIP /\ HostIP(e.h) = ip
    ELSE IF e.t # "cidr" THEN FALSE
    ELSE IF e.h.k = "v4"
         THEN e.ones <= V4Bits /\ ip.fam = 4 /\ HasPrefix(ip.bits, e.h.a, e.ones)
    ELSE /\ e.ones <= V6Bits
         /\ IF HostIP(e.h).fam = 4 /\ e.ones >= Len(V4InV6Prefix)
            THEN /\ ip.fam = 4
                 /\ HasPrefix(ip.bits, HostIP(e.h).bits, e.ones - Len(V4InV6Prefix))
            ELSE ip.fam = 6 /\ HasPrefix(ip.bits, e.h.a, e.ones)

Allowlisted(addr) ==
    /\ PeerIP(addr) # NoIP
    /\ \E i \in 1..Len(cfgNoAuthIPs) : EntryCovers(cfgNoAuthIPs[i], PeerIP(addr))

\* the credentials of the request, as far as the gate has read them
SentAuthorization ==
    IF "Authorization" \in DOMAIN hdr /\ hdr["Authorization"] # <<>>
    THEN hdr["Authorization"][1] ELSE EmptyString

SentToken ==
    IF Len(SentAuthorization) = 2
       /\ SentAuthorization[1] \in {"Bearer", "BEARER", "bearer"}
    THEN SentAuthorization[2] ELSE ""

OwnKeyHeader == IF gate = "admin" THEN "X-Admin-Key" ELSE "X-Device-Key"

OwnKey == IF gate = "admin" THEN AdminKey ELSE DeviceKey

OwnRole == IF gate = "admin" THEN OIDCVerifier.adminRole ELSE OIDCVerifier.deviceRole

OIDCOn == OIDCEnabled /\ ~OIDCVerifier.nil

\* VerifyToken was called, has returned, and reported no error
TokenVerified ==
    /\ "VerifyToken" \in Range(trace)
    /\ pc # "fetch"
    /\ "JWT verification failed" \notin Range(trace)

\* the token carries the role somewhere, or no role is asked
RoleSatisfied(t, role) ==
    \/ role = ""
    \/ /\ TokenInfo[t].decodes
       /\ role \in TokenInfo[t].realm \cup TokenInfo[t].client

JWTPassed == OIDCOn /\ SentToken # "" /\ TokenVerified /\ RoleSatisfied(SentToken, OwnRole)

KeyPassed ==
    /\ OwnKey # EmptyString
    /\ OwnKeyHeader \in DOMAIN hdr
    /\ hdr[OwnKeyHeader] = <<OwnKey>>


(***************************************************************************)
(* Properties                                                              *)
(***************************************************************************)
\* C1: both gates evaluate the strategies in the fixed order IP allowlist,
\* bearer JWT (only when OIDC is enabled and the verifier is non-nil), static
\* key; the first strategy that succeeds ends the evaluation: an allowlisted
\* peer is served without the Authorization header being read or the
\* verifier contacted, and a request passed by its token is served without
\* the key being compared.
C1_StrategyOrder ==
    /\ Strategies \in {<<>>, <<"isIPWhitelisted">>,
                       <<"isIPWhitelisted", "verifyJWT">>,
                       <<"isIPWhitelisted", "keyCompare">>,
                       <<"isIPWhitelisted", "verifyJWT", "keyCompare">>}
    /\ "verifyJWT" \in Range(trace) <=> (OIDCOn /\ pc \in {"fetch", "key", "done"}
                                            /\ authType # "ip_whitelist")
    /\ authType # "none" => pc = "done" /\ trace[Len(trace)] = "next"
    /\ authType = "ip_whitelist" =>
          /\ Strategies = <<"isIPWhitelisted">>
          /\ "VerifyToken" \notin Range(trace)
          /\ hdr = <<>>
    /\ authType = "jwt" =>
          /\ Strategies = <<"isIPWhitelisted", "verifyJWT">>
          /\ DOMAIN hdr = {"Authorization"}
    /\ authType = "api_key" => Strategies[Len(Strategies)] = "keyCompare"
    /\ Allowlisted(remoteAddr) /\ pc \notin {"idle", "ip"} => authType = "ip_whitelist"

C1_Witness ==
    /\ authType = "jwt"
    /\ OwnKey # EmptyString
    /\ trace = <<"isIPWhitelisted", "verifyJWT", "VerifyToken", "HasRole", "next">>

C3_HandlerIffStrategy ==
    /\ nextCalls <= 1
    /\ ~Decided => nextCalls = 0 /\ status = 0
    /\ Decided =>
          /\ Allowed <=> (Allowlisted(remoteAddr) \/ JWTPassed \/ KeyPassed)
          /\ Allowed => status = 0 /\ authType # "none"
          /\ Denied => status = StatusUnauthorized /\ authType = "none"

C3_Witness ==
    /\ Denied
    /\ status = StatusUnauthorized
    /\ Strategies = <<"isIPWhitelisted", "verifyJWT", "keyCompare">>
    /\ Len(NoAuthIPs) = 1

\* C4: with a non-empty key configured for the gate and a peer that is not
\* allowlisted, a request whose key header equals the configured key is
\* allowed, with OIDC disabled and also after the JWT strategy failed; a
\* request whose header holds anything else, and that carries no passing
\* token, is denied.
C4_StaticKey ==
    (Decided /\ ~Allowlisted(remoteAddr) /\ OwnKey # EmptyString) =>
       /\ ~JWTPassed => OwnKeyHeader \in DOMAIN hdr
       /\ OwnKeyHeader \in DOMAIN hdr =>
             /\ HeaderGet(hdr[OwnKeyHeader]) = OwnKey => Allowed /\ authType = "api_key"
             /\ HeaderGet(hdr[OwnKeyHeader]) # OwnKey => Denied /\ ~JWTPassed

C4_Witness ==
    /\ Allowed
    /\ authType = "api_key"
    /\ gate = "device"
    /\ "JWT verification failed" \in Range(trace)
    /\ hdr["X-Device-Key"] = <<KeyD>>

\* C5: when the key configured for a gate is the empty string, the
\* static-key strategy never allows a request on that gate: the header is
\* not compared, so an absent or empty header does not match.
C5_EmptyKeyNeverAllows ==
    OwnKey = EmptyString =>
       /\ authType # "api_key"
       /\ "keyCompare" \notin Range(trace)
       /\ Decided /\ ~Allowlisted(remoteAddr) /\ ~JWTPassed => Denied

C5_Witness ==
    /\ Denied
    /\ gate = "admin"
    /\ AdminKey = EmptyString
    /\ DeviceKey # EmptyString
    /\ trace = <<"isIPWhitelisted", "http.Error">>


\* the peer text is an IP once its optional port is stripped
ParsablePeer(addr) == addr.f \in {"hostport", "bare"} /\ addr.h.k \in {"v4", "v6"}

\* C6: a peer address that is no IP after its optional port is stripped is
\* never bypassed by the allowlist, whatever the configured lists hold; the
\* gate goes on to the credential strategies and, here with none
\* configured, denies.
C6_UnparsablePeerNoBypass ==
    (pc \notin {"idle", "ip"} /\ ~ParsablePeer(remoteAddr)) =>
       /\ authType # "ip_whitelist"
       /\ pc = "key" \/ Denied
       /\ Decided => trace = <<"isIPWhitelisted", "http.Error">>

C6_Witness ==
    /\ Denied
    /\ remoteAddr = [f |-> "hostport", h |-> [k |-> "zone", a |-> [i \in 1..V6Bits |-> 0]]]
    /\ Len(NoAuthSubnets) = MaxEntries
    /\ NoAuthSubnets[1].Mask.ones = 0

\* C7: a bearer token for which VerifyToken reports an error never passes
\* the JWT strategy, for any required role, the empty one included; HasRole
\* is not consulted for it.
C7_FailedTokenNeverPasses ==
    /\ (OIDCOn /\ SentToken # "" /\ ~TokenInfo[SentToken].valid
           /\ pc \in {"key", "done"}) =>
          /\ authType # "jwt"
          /\ "HasRole" \notin Range(trace)
          /\ "JWT verification failed" \in Range(trace)
          /\ Allowed => KeyPassed
    /\ "JWT verification failed" \in Range(trace) =>
          /\ authType # "jwt"
          /\ "HasRole" \notin Range(trace)
          /\ Allowed => KeyPassed

C7_Witness ==
    /\ Decided
    /\ SentToken = "tBad"
    /\ OwnRole = ""
    /\ "JWT verification failed" \in Range(trace)

C9_UniformDenial ==
    Denied =>
       /\ status = 401
       /\ body = IF gate = "admin" THEN "unauthorized (admin)"
                 ELSE "unauthorized (device)"

C9_Witness ==
    /\ Denied
    /\ gate = "device"
    /\ "User missing required role" \in Range(trace)
    /\ "keyCompare" \in Range(trace)

\* C10: once a request has entered a gate, the gate decides; the original
\* statement, which the unbounded key-set fetch falsifies.
C10_GateDecides == (pc = "ip") ~> (pc = "done")

\* C10, what holds: the gate stays undecided only inside VerifyToken.
C10_DecidesUnlessFetching == (pc \in {"ip", "jwt", "key"}) ~> (pc \in {"done", "fetch"})

C10_Witness ==
    /\ pc = "fetch"
    /\ gate = "admin"
    /\ SentToken = "tAdmin"
    /\ AdminKey # EmptyString

(***************************************************************************)
(* The webhook service (package webhook) and the handlers that use it      *)
(***************************************************************************)
\* webhook URLs: two that parse, one that url.Parse rejects
URLs == {"http://a/hook", "http://b/hook", "http://[::1/hook"}

\* http.NewRequest: the error of url.Parse (the method "POST" is valid)
NewRequestErr(url) == url = "http://[::1/hook"

EventNames == {"firmware.uploaded", "firmware.deleted"}

\* the Events column of a row: one list lacks "firmware.deleted", the other
\* holds both names, "firmware.uploaded" second
EventLists ==
    {<<"firmware.uploaded">>, <<"firmware.deleted", "firmware.uploaded">>}

\* what update can write over a row
Rows == [URL : URLs, Events : EventLists, Enabled : BOOLEAN]

\* the data argument of Dispatch: the firmware DTO the handlers pass, and a
\* value json.Marshal rejects (Dispatch takes any)
Datas == {"dto", "unsupported"}

\* what an attempt can end with: a 2xx, another status, a transport error
\* (client.Timeout expiring is one)
Results == {"2xx", "non2xx", "error"}

\* json.Marshal(EventPayload{Event, Data, Time})
Marshal(ev, data, time) ==
    IF data = "unsupported" THEN [err |-> TRUE]
    ELSE [err |-> FALSE, bytes |-> [event |-> ev, data |-> data, time |-> time]]

\* hex.EncodeToString of the HMAC-SHA256 of data under secret
hmacHex(secret, data) == [hex |-> [hmacSha256 |-> data, key |-> secret]]

RECURSIVE contains(_, _)
contains(list, v) ==
    IF list = <<>> THEN FALSE
    ELSE IF Head(list) = v THEN TRUE
    ELSE contains(Tail(list), v)

\* Repository.List: the rows in id order (the repository is not part of
\* the sources at hand; it is a table)
RECURSIVE ListFrom(_, _)
ListFrom(table, id) ==
    IF id > MaxHooks THEN <<>>
    ELSE IF table[id] = NoRow THEN ListFrom(table, id + 1)
    ELSE <<[ID |-> id, URL |-> table[id].URL, Events |-> table[id].Events,
            Enabled |-> table[id].Enabled]>> \o ListFrom(table, id + 1)

RepoList == ListFrom(repo, 1)

FreeIds == {id \in 1..MaxHooks : repo[id] = NoRow}

\* main: Service{Secret, Retries} from the configuration; no webhook yet
HooksInit ==
    /\ MainAuth(<<>>, EmptyString, EmptyString, FALSE, <<"", "">>)
    /\ Idle
    /\ Secret \in {"", "s3cret"}
    /\ Retries = MaxRetries
    /\ TimeoutSec = DefaultTimeoutSec
    /\ HooksQuiet
    /\ NoAPI

\* WebhookHandler.create, behind the admin gate: a non-empty url and a
\* non-empty events list are all it asks for, and the row is stored enabled.
\* The row gets the smallest id the table has free; MaxAdminOps caps the
\* create, update and delete calls of a run.
Create(url, events) ==
    /\ ~crashed
    /\ adminOps < MaxAdminOps
    /\ url # "" /\ Len(events) # 0
    /\ FreeIds # {}
    /\ LET id == CHOOSE x \in FreeIds : \A y \in FreeIds : x <= y
       IN  repo' = [repo EXCEPT ![id] = [URL |-> url, Events |-> events, Enabled |-> TRUE]]
    /\ adminOps' = adminOps + 1
    /\ UNCHANGED <<service, handler, workers, crashed, vars, api>>

\* WebhookHandler.update
Update(id, row) ==
    /\ ~crashed
    /\ adminOps < MaxAdminOps
    /\ repo[id] # NoRow
    /\ repo' = [repo EXCEPT ![id] = row]
    /\ adminOps' = adminOps + 1
    /\ UNCHANGED <<service, handler, workers, crashed, vars, api>>

\* WebhookHandler.delete
Delete(id) ==
    /\ ~crashed
    /\ adminOps < MaxAdminOps
    /\ repo[id] # NoRow
    /\ repo' = [repo EXCEPT ![id] = NoRow]
    /\ adminOps' = adminOps + 1
    /\ UNCHANGED <<service, handler, workers, crashed, vars, api>>

Live == {id \in 1..MaxHooks : repo[id] # NoRow}

\* FirmwareHandler.upload / delete up to the call of Dispatch: the business
\* operation succeeds or fails. The code puts no limit on the goroutines
\* alive at once; here a request is taken up only while the goroutines
\* still alive and those this call may start number at most MaxHooks, and
\* only MaxDispatches calls are made.
Begin(ev, saveOk) ==
    /\ ~crashed
    /\ hpc = "idle"
    /\ dispatches < MaxDispatches
    /\ Len(workers) + Cardinality(Live) <= MaxHooks
    /\ IF saveOk
       THEN hpc' = "dispatch" /\ response' = "none" /\ event' = ev
       ELSE /\ hpc' = "idle"
            /\ response' = IF ev = "firmware.uploaded" THEN "500 save failed"
                           ELSE "404 not found"
            /\ event' = ""
    /\ UNCHANGED <<hooks, whBody, idx, dispatchCount, launched, dlog>>
    /\ UNCHANGED <<dispatches, service, repo, adminOps, workers, crashed, vars, api>>

\* Dispatch going on to the loop after json.Marshal failed (no return)
DispatchListNoReturn(listOk, data) ==
    /\ ~crashed
    /\ hpc = "dispatch"
    /\ dispatches' = dispatches + 1
    /\ LET m == Marshal(event, data, dispatches + 1)
       IN  IF ~listOk
           THEN /\ dlog' = <<[msg |-> "Failed to list webhooks for event dispatch"]>>
                /\ hpc' = "respond"
                /\ UNCHANGED <<hooks, whBody, idx>>
           ELSE /\ dlog' = IF m.err THEN <<[msg |-> "Failed to marshal webhook payload"]>>
                           ELSE dlog
                /\ hooks' = RepoList
                /\ whBody' = IF m.err THEN <<>> ELSE m.bytes
                /\ idx' = 1
                /\ hpc' = "loop"
    /\ UNCHANGED <<event, dispatchCount, launched, response>>
    /\ UNCHANGED <<service, repo, adminOps, workers, crashed, vars, api>>

\* Dispatch reading a list cached when the service was built (the table
\* was empty then) instead of calling List
DispatchListStartupCache(listOk, data) ==
    /\ ~crashed
    /\ hpc = "dispatch"
    /\ dispatches' = dispatches + 1
    /\ LET m == Marshal(event, data, dispatches + 1)
       IN  IF m.err
           THEN /\ dlog' = <<[msg |-> "Failed to marshal webhook payload"]>>
                /\ hpc' = "respond"
                /\ UNCHANGED <<hooks, whBody, idx>>
           ELSE /\ hooks' = <<>>
                /\ whBody' = m.bytes
                /\ idx' = 1
                /\ hpc' = "loop"
                /\ UNCHANGED dlog
    /\ UNCHANGED <<event, dispatchCount, launched, response>>
    /\ UNCHANGED <<service, repo, adminOps, workers, crashed, vars, api>>

\* Dispatch: s.Repo.List(), the payload, json.Marshal
DispatchList(listOk, data) ==
    /\ ~crashed
    /\ hpc = "dispatch"
    /\ dispatches' = dispatches + 1
    /\ LET m == Marshal(event, data, dispatches + 1)
       IN  IF ~listOk
           THEN /\ dlog' = <<[msg |-> "Failed to list webhooks for event dispatch"]>>
                /\ hpc' = "respond"
                /\ UNCHANGED <<hooks, whBody, idx>>
           ELSE IF m.err
                THEN /\ dlog' = <<[msg |-> "Failed to marshal webhook payload"]>>
                     /\ hooks' = RepoList
                     /\ hpc' = "respond"
                     /\ UNCHANGED <<whBody, idx>>
           ELSE /\ hooks' = RepoList
                /\ whBody' = m.bytes
                /\ idx' = 1
                /\ hpc' = "loop"
                /\ UNCHANGED dlog
    /\ UNCHANGED <<event, dispatchCount, launched, response>>
    /\ UNCHANGED <<service, repo, adminOps, workers, crashed, vars, api>>

\* the goroutine `go s.deliver(h.URL, body, event)` starts; d and id say
\* which Dispatch call and which row it was launched for
NewWorker(h) ==
    [d |-> dispatches, id |-> h.ID, url |-> h.URL, body |-> whBody, event |-> event,
     attempt |-> 0, pc |-> "start", res |-> <<>>, reqs |-> <<>>, waits |-> <<>>]

\* the range loop without the test of h.Enabled
DispatchLoopNoEnabledCheck ==
    /\ ~crashed
    /\ hpc = "loop"
    /\ idx <= Len(hooks)
    /\ LET h == hooks[idx]
       IN  IF ~contains(h.Events, event)
           THEN UNCHANGED <<dispatchCount, launched, workers>>
           ELSE /\ dispatchCount' = dispatchCount + 1
                /\ launched' = Append(launched, h.ID)
                /\ workers' = Append(workers, NewWorker(h))
    /\ idx' = idx + 1
    /\ UNCHANGED <<hpc, event, hooks, whBody, dlog, dispatches, response>>
    /\ UNCHANGED <<service, repo, adminOps, crashed, vars, api>>

\* Dispatch: one turn of the range loop
DispatchLoop ==
    /\ ~crashed
    /\ hpc = "loop"
    /\ idx <= Len(hooks)
    /\ LET h == hooks[idx]
       IN  IF ~h.Enabled \/ ~contains(h.Events, event)
           THEN UNCHANGED <<dispatchCount, launched, workers>>
           ELSE /\ dispatchCount' = dispatchCount + 1
                /\ launched' = Append(launched, h.ID)
                /\ workers' = Append(workers, NewWorker(h))
    /\ idx' = idx + 1
    /\ UNCHANGED <<hpc, event, hooks, whBody, dlog, dispatches, response>>
    /\ UNCHANGED <<service, repo, adminOps, crashed, vars, api>>

\* Dispatch: after the loop, the count is logged and Dispatch returns
DispatchEnd ==
    /\ ~crashed
    /\ hpc = "loop"
    /\ idx > Len(hooks)
    /\ dlog' = Append(dlog,
                IF dispatchCount > 0
                THEN [msg |-> "Dispatching webhook event", webhook_count |-> dispatchCount]
                ELSE [msg |-> "No webhooks configured for event"])
    /\ hpc' = "respond"
    /\ UNCHANGED <<event, hooks, whBody, idx, dispatchCount, launched, dispatches, response>>
    /\ UNCHANGED <<service, repo, adminOps, workers, crashed, vars, api>>

\* the response held back until every goroutine has returned (a WaitGroup)
RespondAfterDeliveries ==
    /\ ~crashed
    /\ hpc = "respond"
    /\ \A w \in 1..Len(workers) : workers[w].pc = "done"
    /\ response' = "200"
    /\ hpc' = "idle"
    /\ event' = ""
    /\ hooks' = <<>> /\ whBody' = <<>> /\ idx' = 0 /\ dispatchCount' = 0
    /\ launched' = <<>> /\ dlog' = <<>>
    /\ UNCHANGED dispatches
    /\ UNCHANGED <<service, repo, adminOps, workers, crashed, vars, api>>

\* util.WriteJSON after Dispatch has returned; the handler returns and what
\* Dispatch held is gone
Respond ==
    /\ ~crashed
    /\ hpc = "respond"
    /\ response' = "200"
    /\ hpc' = "idle"
    /\ event' = ""
    /\ hooks' = <<>> /\ whBody' = <<>> /\ idx' = 0 /\ dispatchCount' = 0
    /\ launched' = <<>> /\ dlog' = <<>>
    /\ UNCHANGED dispatches
    /\ UNCHANGED <<service, repo, adminOps, workers, crashed, vars, api>>

\* a negative Retries counting as its magnitude
RetriesOfMagnitude(n) == IF n < 0 THEN 0 - n ELSE n

\* deliver: retries, a negative Retries counting as none
RetriesOf(n) == IF n < 0 THEN 0 ELSE n

\* the unit of the backoff, in milliseconds
BackoffUnitMs == 500

\* a sleep of the same length before every retry
BackoffFixed(attempt) == BackoffUnitMs

\* deliver: the sleep after the failed attempt of 0-based index attempt
Backoff(attempt) == (attempt + 1) * BackoffUnitMs

\* the request with the signature header set whatever the secret
NewRequestAlwaysSigned(url, bytes) ==
    [method |-> "POST", url |-> url, body |-> bytes,
     header |-> [n \in {"Content-Type", "X-Webhook-Signature"} |->
                    IF n = "Content-Type" THEN "application/json"
                    ELSE hmacHex(Secret, bytes)]]

\* deliver: the request of an attempt
NewRequest(url, bytes) ==
    [method |-> "POST", url |-> url, body |-> bytes,
     header |-> IF Secret # ""
                THEN [n \in {"Content-Type", "X-Webhook-Signature"} |->
                         IF n = "Content-Type" THEN "application/json"
                         ELSE hmacHex(Secret, bytes)]
                ELSE [n \in {"Content-Type"} |-> "application/json"]]

\* an attempt that looks the row up again and posts to the URL it has now
SendCurrentURL(w) ==
    /\ ~crashed
    /\ workers[w].pc \in {"start", "sleep"}
    /\ LET url == IF repo[workers[w].id] = NoRow THEN workers[w].url
                  ELSE repo[workers[w].id].URL
       IN  IF NewRequestErr(url)
           THEN /\ crashed' = TRUE
                /\ response' = IF hpc # "idle" THEN "connection lost" ELSE response
                /\ UNCHANGED workers
           ELSE /\ workers' = [workers EXCEPT
                      ![w].attempt = IF workers[w].pc = "sleep" THEN @ + 1 ELSE @,
                      ![w].pc = "inflight",
                      ![w].reqs = Append(@, NewRequest(url, workers[w].body))]
                /\ UNCHANGED <<crashed, response>>
    /\ UNCHANGED <<hpc, event, hooks, whBody, idx, dispatchCount, launched, dlog, dispatches>>
    /\ UNCHANGED <<service, repo, adminOps, vars, api>>

\* an attempt held back until the deliveries of earlier events to the same
\* URL have finished (a queue per subscriber)
SendInOrder(w) ==
    /\ ~crashed
    /\ workers[w].pc \in {"start", "sleep"}
    /\ \A v \in 1..Len(workers) :
          (workers[v].url = workers[w].url /\ workers[v].d < workers[w].d) =>
             workers[v].pc = "done"
    /\ IF NewRequestErr(workers[w].url)
       THEN /\ crashed' = TRUE
            /\ response' = IF hpc # "idle" THEN "connection lost" ELSE response
            /\ UNCHANGED workers
       ELSE /\ workers' = [workers EXCEPT
                  ![w].attempt = IF workers[w].pc = "sleep" THEN @ + 1 ELSE @,
                  ![w].pc = "inflight",
                  ![w].reqs = Append(@, NewRequest(workers[w].url, workers[w].body))]
            /\ UNCHANGED <<crashed, response>>
    /\ UNCHANGED <<hpc, event, hooks, whBody, idx, dispatchCount, launched, dlog, dispatches>>
    /\ UNCHANGED <<service, repo, adminOps, vars, api>>

\* deliver: an attempt begins (the first one, or the next after the
\* backoff sleep): the request is built and client.Do sends it. For a URL
\* that http.NewRequest rejects req is nil, req.Header panics, and the
\* panic of a goroutine ends the process: the upload or delete in progress
\* gets no response.
Send(w) ==
    /\ ~crashed
    /\ workers[w].pc \in {"start", "sleep"}
    /\ IF NewRequestErr(workers[w].url)
       THEN /\ crashed' = TRUE
            /\ response' = IF hpc # "idle" THEN "connection lost" ELSE response
            /\ UNCHANGED workers
       ELSE /\ workers' = [workers EXCEPT
                  ![w].attempt = IF workers[w].pc = "sleep" THEN @ + 1 ELSE @,
                  ![w].pc = "inflight",
                  ![w].reqs = Append(@, NewRequest(workers[w].url, workers[w].body))]
            /\ UNCHANGED <<crashed, response>>
    /\ UNCHANGED <<hpc, event, hooks, whBody, idx, dispatchCount, launched, dlog, dispatches>>
    /\ UNCHANGED <<service, repo, adminOps, vars, api>>

\* the attempt loop running one turn more (attempt <= retries + 1)
AnswerOneMore(w, res) ==
    /\ ~crashed
    /\ workers[w].pc = "inflight"
    /\ workers' = [workers EXCEPT
          ![w].res = Append(@, res),
          ![w].pc = IF res = "2xx" THEN "done"
                    ELSE IF workers[w].attempt < RetriesOf(Retries) + 1 THEN "sleep"
                    ELSE "done",
          ![w].waits = IF res # "2xx" /\ workers[w].attempt < RetriesOf(Retries) + 1
                       THEN Append(@, Backoff(workers[w].attempt)) ELSE @]
    /\ UNCHANGED <<service, repo, adminOps, handler, crashed, vars, api>>

\* the attempt loop without the return on a 2xx
AnswerNoReturn(w, res) ==
    /\ ~crashed
    /\ workers[w].pc = "inflight"
    /\ workers' = [workers EXCEPT
          ![w].res = Append(@, res),
          ![w].pc = IF workers[w].attempt < RetriesOf(Retries) THEN "sleep"
                    ELSE "done",
          ![w].waits = IF workers[w].attempt < RetriesOf(Retries)
                       THEN Append(@, Backoff(workers[w].attempt)) ELSE @]
    /\ UNCHANGED <<service, repo, adminOps, handler, crashed, vars, api>>

\* deliver: client.Do returns; a 2xx ends the worker, anything else leads to
\* the backoff sleep while attempts remain; waits keeps the lengths of the
\* sleeps the worker has begun
Answer(w, res) ==
    /\ ~crashed
    /\ workers[w].pc = "inflight"
    /\ workers' = [workers EXCEPT
          ![w].res = Append(@, res),
          ![w].pc = IF res = "2xx" THEN "done"
                    ELSE IF workers[w].attempt < RetriesOf(Retries) THEN "sleep"
                    ELSE "done",
          ![w].waits = IF res # "2xx" /\ workers[w].attempt < RetriesOf(Retries)
                       THEN Append(@, Backoff(workers[w].attempt)) ELSE @]
    /\ UNCHANGED <<service, repo, adminOps, handler, crashed, vars, api>>

\* http.Client{Timeout: timeout}: the client gives up a request at its
\* deadline only for a timeout above zero; zero or less means no timeout
HasDeadline(sec) == sec > 0

\* deliver: the client's deadline passes before an answer has come, and
\* client.Do returns an error
Timeout(w) ==
    /\ HasDeadline(TimeoutSec)
    /\ Answer(w, "error")

\* the goroutine of a finished delivery is gone
Exit(w) ==
    /\ ~crashed
    /\ workers[w].pc = "done"
    /\ workers' = SubSeq(workers, 1, w - 1) \o SubSeq(workers, w + 1, Len(workers))
    /\ UNCHANGED <<service, repo, adminOps, handler, crashed, vars, api>>

HooksNext ==
    \/ \E url \in URLs, events \in EventLists : Create(url, events)
    \/ \E id \in 1..MaxHooks, row \in Rows : Update(id, row)
    \/ \E id \in 1..MaxHooks : Delete(id)
    \/ \E ev \in EventNames, saveOk \in BOOLEAN : Begin(ev, saveOk)
    \/ \E listOk \in BOOLEAN, data \in Datas : DispatchList(listOk, data)
    \/ DispatchLoop
    \/ DispatchEnd
    \/ Respond
    \/ \E w \in 1..Len(workers) : Send(w)
    \/ \E w \in 1..Len(workers), res \in Results : Answer(w, res)
    \/ \E w \in 1..Len(workers) : Timeout(w)
    \/ \E w \in 1..Len(workers) : Exit(w)

SpecHooks == HooksInit /\ [][HooksNext]_allVars

\* Service.deliver on its own: one goroutine running deliver(url, body,
\* event), for every Secret, every Retries from -1 to MaxDeliverRetries and a
\* negative, a zero and the default TimeoutSec
DeliverInit ==
    /\ MainAuth(<<>>, EmptyString, EmptyString, FALSE, <<"", "">>)
    /\ Idle
    /\ Secret \in {"", "s3cret"}
    /\ Retries \in -1..MaxDeliverRetries
    /\ TimeoutSec \in {-1, 0, DefaultTimeoutSec}
    /\ repo = [id \in 1..MaxHooks |-> NoRow]
    /\ adminOps = 0
    /\ hpc = "idle"
    /\ event = ""
    /\ hooks = <<>>
    /\ whBody = <<>>
    /\ idx = 0
    /\ dispatchCount = 0
    /\ launched = <<>>
    /\ dlog = <<>>
    /\ dispatches = 1
    /\ response = "200"
    /\ \E url \in URLs, ev \in EventNames :
          workers = <<[d |-> 1, id |-> 1, url |-> url,
                       body |-> Marshal(ev, "dto", 1).bytes, event |-> ev,
                       attempt |-> 0, pc |-> "start", res |-> <<>>, reqs |-> <<>>, waits |-> <<>>]>>
    /\ crashed = FALSE
    /\ NoAPI

DeliverNext ==
    \/ \E w \in 1..Len(workers) : Send(w)
    \/ \E w \in 1..Len(workers), res \in Results : Answer(w, res)
    \/ \E w \in 1..Len(workers) : Timeout(w)
    \/ \E w \in 1..Len(workers) : Exit(w)

SpecDeliver == DeliverInit /\ [][DeliverNext]_allVars

\* the goroutine is scheduled: a request that can be built and sent is sent,
\* and a sleep ends; a client with a deadline returns by that deadline.
\* Nothing makes a subscriber answer.
FairDeliver ==
    /\ SpecDeliver
    /\ WF_allVars(\E w \in 1..Len(workers) : Send(w))
    /\ WF_allVars(\E w \in 1..Len(workers) : Timeout(w))

(***************************************************************************)
(* Claims about Dispatch and deliver                                       *)
(***************************************************************************)
\* a listed webhook is eligible for an event: enabled and subscribed
Eligible(h, ev) == h.Enabled /\ \E i \in 1..Len(h.Events) : h.Events[i] = ev

\* the ids of the eligible webhooks among the first n listed, in list order
EligibleIds(n) ==
    LET Test(h) == Eligible(h, event)
        el == SelectSeq(SubSeq(hooks, 1, n), Test)
    IN  [i \in 1..Len(el) |-> el[i].ID]

\* Dispatch has gone through the whole list and logged its count
Counted ==
    /\ hpc = "respond"
    /\ dlog # <<>>
    /\ dlog[Len(dlog)].msg \in
          {"Dispatching webhook event", "No webhooks configured for event"}

\* C11: in every Dispatch call the workers launched are exactly one for each
\* listed webhook that is enabled and subscribed to the event, in list order,
\* and none for any other webhook (while the loop runs this holds of the part
\* of the list it has passed); the webhook_count logged is the number of
\* workers launched; when no listed webhook is eligible the call launches no
\* worker, so no request of this call exists.
C11_OneWorkerPerEligible ==
    /\ hpc = "loop" => launched = EligibleIds(idx - 1)
    /\ Counted =>
          /\ launched = EligibleIds(Len(hooks))
          /\ dlog = IF Len(launched) > 0
                    THEN <<[msg |-> "Dispatching webhook event",
                            webhook_count |-> Len(launched)]>>
                    ELSE <<[msg |-> "No webhooks configured for event"]>>
    /\ hpc \in {"loop", "respond"} =>
          /\ \A w \in 1..Len(workers) :
                workers[w].d = dispatches =>
                   \E i \in 1..Len(launched) : launched[i] = workers[w].id
          /\ \A v, w \in 1..Len(workers) :
                (workers[v].d = workers[w].d /\ workers[v].id = workers[w].id) => v = w
    /\ (Counted /\ EligibleIds(Len(hooks)) = <<>>) =>
          \A w \in 1..Len(workers) : workers[w].d # dispatches

\* a Dispatch over two listed webhooks of which only the second is eligible
C11_Witness ==
    /\ Counted
    /\ Len(hooks) = 2
    /\ launched = <<2>>
    /\ dlog = <<[msg |-> "Dispatching webhook event", webhook_count |-> 1]>>
    /\ \E w \in 1..Len(workers) : workers[w].d = dispatches /\ workers[w].id = 2

\* the attempts of a worker that have ended, none of them with a 2xx
AllFailed(w) == \A i \in 1..Len(workers[w].res) : workers[w].res[i] # "2xx"

\* C12 as stated: a worker that has stopped after failing every attempt has
\* sent exactly Retries + 1 requests.
C12_RetriesPlusOne ==
    \A w \in 1..Len(workers) :
        (workers[w].pc = "done" /\ AllFailed(w)) => Len(workers[w].reqs) = Retries + 1

\* C12, amended: with N the configured Retries, a negative one counting as 0,
\* a worker never sends more than N + 1 requests, never has more than one
\* request awaiting its answer, stops after failures only when it has sent
\* N + 1, and a worker that has stopped sends nothing more (no step of a
\* stopped worker changes its requests).
C12_ClampedRetriesPlusOne ==
    LET N == IF Retries < 0 THEN 0 ELSE Retries
    IN  \A w \in 1..Len(workers) :
           /\ Len(workers[w].reqs) <= N + 1
           /\ Len(workers[w].res) <= Len(workers[w].reqs)
           /\ Len(workers[w].reqs) <= Len(workers[w].res) + 1
           /\ (workers[w].pc = "done" /\ AllFailed(w)) =>
                 /\ Len(workers[w].reqs) = N + 1
                 /\ Len(workers[w].res) = N + 1
                 /\ ~ENABLED Send(w)
                 /\ ~ENABLED (\E res \in Results : Answer(w, res))

\* a worker has stopped after MaxRetries + 1 failed attempts, a status and a
\* transport error among them
C12_Witness ==
    \E w \in 1..Len(workers) :
        /\ workers[w].pc = "done"
        /\ AllFailed(w)
        /\ Retries = MaxRetries
        /\ Len(workers[w].reqs) = MaxRetries + 1
        /\ \E i, j \in 1..Len(workers[w].res) :
              workers[w].res[i] = "non2xx" /\ workers[w].res[j] = "error"

\* C13: a worker stops at its first 2xx: a 2xx is the answer to the last
\* request the worker has sent, the worker has then stopped and has no step
\* that sends again, so a first 2xx on attempt k (counting from 1) means
\* exactly k requests, k - 1 of them failed; in particular a 2xx on the
\* second attempt means exactly two requests.
C13_StopsAtFirst2xx ==
    \A w \in 1..Len(workers) :
        \A k \in 1..Len(workers[w].res) :
            workers[w].res[k] = "2xx" =>
               /\ k = Len(workers[w].res)
               /\ Len(workers[w].reqs) = k
               /\ \A i \in 1..(k - 1) : workers[w].res[i] # "2xx"
               /\ workers[w].pc = "done"
               /\ ~ENABLED Send(w)

\* a subscriber failed the first attempt and answered 2xx to the second, with
\* retries left: the worker has stopped with exactly two requests sent
C13_Witness ==
    \E w \in 1..Len(workers) :
        /\ workers[w].pc = "done"
        /\ Len(workers[w].res) = 2
        /\ workers[w].res[1] # "2xx"
        /\ workers[w].res[2] = "2xx"
        /\ Len(workers[w].reqs) = 2


\* the requests sent so far, each with the Dispatch call it belongs to and
\* the body that call handed to deliver
Sent ==
    UNION {{[d |-> workers[w].d, given |-> workers[w].body, req |-> workers[w].reqs[i]] :
               i \in 1..Len(workers[w].reqs)} : w \in 1..Len(workers)}

\* C14: a request carries X-Webhook-Signature exactly when the service's
\* secret is non-empty; the value is the hex of the HMAC-SHA256, keyed with
\* the secret, of the very bytes sent as the request's body, which are the
\* bytes Dispatch serialized; two requests of the same Dispatch call (a
\* retry of one subscriber, or requests to different subscribers) have the
\* same body and the same headers.
C14_SignatureOverBody ==
    /\ \A s \in Sent :
          /\ s.req.body = s.given
          /\ s.req.header["Content-Type"] = "application/json"
          /\ ("X-Webhook-Signature" \in DOMAIN s.req.header) <=> (Secret # "")
          /\ Secret # "" =>
                s.req.header["X-Webhook-Signature"] =
                   [hex |-> [hmacSha256 |-> s.req.body, key |-> Secret]]
    /\ \A s, t \in Sent :
          s.d = t.d => (s.req.body = t.req.body /\ s.req.header = t.req.header)

\* with a secret configured, one Dispatch has reached two subscribers, one
\* of them twice (a retry)
C14_Witness ==
    /\ Secret # ""
    /\ \E v, w \in 1..Len(workers) :
          /\ v # w
          /\ workers[v].d = workers[w].d
          /\ workers[v].url # workers[w].url
          /\ Len(workers[v].reqs) = 2
          /\ Len(workers[w].reqs) >= 1

\* C15: Dispatch and the handler never wait for a delivery: while the process
\* runs, whatever the goroutines are doing, the loop can take its next turn,
\* Dispatch can return once the list is passed, and the handler can write its
\* response once Dispatch has returned.
C15_DispatchDoesNotWait ==
    /\ (~crashed /\ hpc = "loop" /\ idx <= Len(hooks)) => ENABLED DispatchLoop
    /\ (~crashed /\ hpc = "loop" /\ idx > Len(hooks)) => ENABLED DispatchEnd
    /\ (~crashed /\ hpc = "respond") => ENABLED Respond

\* the handler has responded while both goroutines of its Dispatch are still
\* at work: one has not sent yet, the other awaits its answer
C15_Witness ==
    /\ hpc = "idle"
    /\ response = "200"
    /\ Len(workers) = 2
    /\ workers[1].d = dispatches /\ workers[2].d = dispatches
    /\ workers[1].pc = "start"
    /\ workers[2].pc = "inflight"

\* a delivery under way to a URL that http.NewRequest accepts
Pending(w) == workers[w].pc # "done" /\ ~NewRequestErr(workers[w].url)

\* C16 as stated: no delivery is cancelled by what happens to another one: a
\* worker that has not finished, and whose own URL is well-formed, is never
\* stopped (the process it runs in has not been ended).
C16_DeliveriesIsolated ==
    \A w \in 1..Len(workers) : Pending(w) => ~crashed

\* C16, what does hold: the deliveries share no state (a step changes at most
\* one worker, and the request a worker sends is made of its own url and
\* body and of the service's Secret alone), and the only thing that stops a
\* pending delivery is the panic of a goroutine whose URL http.NewRequest
\* rejects.
C16_IsolatedUnlessPanic ==
    [][/\ crashed' =>
             \/ crashed
             \/ \E v \in 1..Len(workers) :
                   NewRequestErr(workers[v].url) /\ workers[v].pc \in {"start", "sleep"}
       /\ (~crashed' /\ Len(workers') = Len(workers)) =>
             \A v, w \in 1..Len(workers) :
                (workers'[v] # workers[v] /\ workers'[w] # workers[w]) => v = w
       /\ \A w \in 1..Len(workers) :
             (Len(workers') = Len(workers) /\ Len(workers'[w].reqs) > Len(workers[w].reqs)) =>
                workers'[w].reqs[Len(workers'[w].reqs)].url = workers[w].url
                /\ workers'[w].reqs[Len(workers'[w].reqs)].body = workers[w].body]_allVars

\* the process has ended while a delivery to a well-formed URL was awaiting
\* its answer, a retry still ahead of it
C16_Witness ==
    /\ crashed
    /\ \E w \in 1..Len(workers) :
          /\ Pending(w)
          /\ workers[w].pc = "inflight"
          /\ workers[w].attempt < RetriesOf(Retries)

\* what upload and delete answer when the business operation failed
FailureResponses == {"500 save failed", "404 not found"}

\* C17 as stated: once SaveFirmware (or the delete's lookup) has succeeded
\* the client gets the success response, whatever notification does: the
\* handler is never left without its response, and no response other than
\* the success one or a failure of the business operation itself is seen.
C17_SuccessReported ==
    /\ hpc # "idle" => ~crashed
    /\ response \in {"none", "200"} \cup FailureResponses

\* C17, what does hold: while the process runs, a handler whose business
\* operation succeeded answers with the success response whether the list
\* failed, the serialization failed, no webhook matched or deliveries failed;
\* a failure response is only written when Dispatch was not called.
C17_SuccessUnlessPanic ==
    [][/\ (hpc # "idle" /\ hpc' = "idle") => response' = "200"
       /\ (response' \in FailureResponses /\ response' # response) =>
             (hpc = "idle" /\ hpc' = "idle" /\ dispatches' = dispatches)
       /\ (response' = "connection lost" /\ response # "connection lost") =>
             (crashed' /\ ~crashed)]_allVars

\* an upload was saved and its Dispatch had returned; before the response
\* was written the process ended
C17_Witness ==
    /\ crashed
    /\ hpc = "respond"
    /\ event = "firmware.uploaded"
    /\ response = "connection lost"

\* in this Dispatch call List or json.Marshal returned an error
Abandoned ==
    \E i \in 1..Len(dlog) :
        dlog[i].msg \in {"Failed to list webhooks for event dispatch",
                         "Failed to marshal webhook payload"}

\* C18: when Repo.List or json.Marshal fails, the Dispatch call has returned
\* at once (the handler stands where Dispatch returns to, the failure line
\* is all the call logged), it has launched no worker, so none of its
\* requests exists, and counted none; no error reaches the caller: the
\* response is not yet written, and while the process runs the step that
\* follows is the handler's success response.
C18_AbandonedSilently ==
    Abandoned =>
       /\ hpc = "respond"
       /\ Len(dlog) = 1
       /\ \A w \in 1..Len(workers) : workers[w].d # dispatches
       /\ launched = <<>>
       /\ dispatchCount = 0
       /\ response \in {"none", "connection lost"}
       /\ ~crashed => (response = "none" /\ ENABLED Respond)

\* json.Marshal failed on a Dispatch whose list held an eligible webhook
C18_Witness ==
    /\ Abandoned
    /\ dlog[1].msg = "Failed to marshal webhook payload"
    /\ \E i \in 1..Len(hooks) : Eligible(hooks[i], event)
    /\ workers = <<>>

\* C19: the list a Dispatch call works on is the content of the table at the
\* step of its own list read: every row the table holds at that step is
\* listed, with the URL, events and enabled flag it has then, and nothing
\* else is listed, whatever was created, updated or deleted before and
\* whatever an earlier Dispatch had listed. (With C11: the webhooks delivered
\* to are the enabled, subscribed rows of the table as it is at the read.)
C19_ListIsCurrentTable ==
    [][(hpc = "dispatch" /\ hpc' = "loop") =>
          /\ \A id \in 1..MaxHooks :
                repo[id] # NoRow =>
                   \E i \in 1..Len(hooks') :
                      hooks'[i] = [ID |-> id, URL |-> repo[id].URL,
                                   Events |-> repo[id].Events,
                                   Enabled |-> repo[id].Enabled]
          /\ \A i \in 1..Len(hooks') :
                /\ hooks'[i].ID \in 1..MaxHooks
                /\ repo[hooks'[i].ID] # NoRow
                /\ \A j \in 1..Len(hooks') : hooks'[j].ID = hooks'[i].ID => j = i]_allVars

\* a webhook was delivered to by the first Dispatch and deleted before the
\* second one's read: the second lists nothing and launches nothing
C19_Witness ==
    /\ dispatches = 2
    /\ Counted
    /\ hooks = <<>>
    /\ launched = <<>>
    /\ \E w \in 1..Len(workers) :
          workers[w].d = 1 /\ workers[w].reqs # <<>> /\ repo[workers[w].id] = NoRow

\* C20: a delivery works on what its Dispatch read: every request of a
\* worker goes to the URL the worker was launched with, which is the URL
\* listed for its row in the call's snapshot, whether or not the row has
\* since been deleted, disabled or given another URL; a worker whose
\* attempts all failed stops only after all its retries; and a row that is
\* not in the snapshot (created after the read) has no worker of that call.
C20_SnapshotDelivery ==
    /\ \A w \in 1..Len(workers) :
          /\ \A i \in 1..Len(workers[w].reqs) : workers[w].reqs[i].url = workers[w].url
          /\ (workers[w].pc = "done" /\ AllFailed(w)) =>
                Len(workers[w].reqs) = RetriesOf(Retries) + 1
    /\ hpc \in {"loop", "respond"} =>
          \A w \in 1..Len(workers) :
              workers[w].d = dispatches =>
                 \E i \in 1..Len(hooks) :
                    /\ hooks[i].ID = workers[w].id
                    /\ hooks[i].URL = workers[w].url
                    /\ Eligible(hooks[i], workers[w].event)

\* a webhook was given another URL after the read: its worker has made all
\* its attempts at the URL of the snapshot
C20_Witness ==
    \E w \in 1..Len(workers) :
        /\ repo[workers[w].id] # NoRow
        /\ repo[workers[w].id].URL # workers[w].url
        /\ workers[w].pc = "done"
        /\ AllFailed(w)
        /\ Len(workers[w].reqs) = MaxRetries + 1
        /\ \A i \in 1..Len(workers[w].reqs) : workers[w].reqs[i].url = workers[w].url

(***************************************************************************)
(* The HTTP API: NewRouter, FirmwareHandler and WebhookHandler              *)
(***************************************************************************)
\* r.Method
Methods == {"GET", "POST", "PUT", "DELETE"}

\* r.URL.Path, as its segments between slashes: "/api/firmware/" ends with
\* an empty segment
PathTexts ==
    {<<"api", "health">>, <<"api", "other">>,
     <<"api", "firmware">>, <<"api", "firmware", "">>,
     <<"api", "firmware", "esp32">>,
     <<"api", "firmware", "esp32", "latest">>,
     <<"api", "firmware", "esp32", "1.0.0">>,
     <<"api", "firmware", "esp32", "1.0.0", "x">>,
     <<"api", "webhooks">>, <<"api", "webhooks", "">>,
     <<"api", "webhooks", "1">>, <<"api", "webhooks", "2">>,
     <<"api", "webhooks", "0">>, <<"api", "webhooks", "x">>,
     <<"api", "webhooks", "1", "x">>}

\* the peer of the requests of the API runs
RouteAddr == [f |-> "hostport", h |-> [k |-> "name", a |-> <<>>]]

\* filterEmpty
filterEmpty(in) ==
    LET NonEmpty(p) == p # ""
    IN  SelectSeq(in, NonEmpty)

\* strconv.ParseInt(idStr, 10, 64) with its error dropped: 0 for a text that
\* is no number
ParseInt(idStr) ==
    IF idStr = "1" THEN 1 ELSE IF idStr = "2" THEN 2 ELSE 0

\* the handler answers at once, behind no gate
Direct(resp) == [gate |-> "", handler |-> "", resp |-> resp, v |-> "", id |-> 0]

\* the handler wraps a method in RequireAdmin or RequireDevice and calls it
Gated(g, h, v, id) == [gate |-> g, handler |-> h, resp |-> "", v |-> v, id |-> id]

\* FirmwareHandler.ServeHTTP with delete behind the device gate
FirmwareServeHTTPDeviceDelete(method, path) ==
    LET parts == filterEmpty(SubSeq(path, 3, Len(path)))
    IN  IF Len(parts) = 0 THEN Direct("400 missing firmware type")
        ELSE IF Len(parts) = 1 /\ method = "GET" THEN Gated("device", "list", "", 0)
        ELSE IF Len(parts) = 2 /\ parts[2] = "latest" /\ method = "GET"
             THEN Gated("device", "latest", "", 0)
        ELSE IF Len(parts) = 2
             THEN CASE method = "POST" -> Gated("admin", "upload", parts[2], 0)
                    [] method = "GET" -> Gated("device", "download", parts[2], 0)
                    [] method = "DELETE" -> Gated("device", "delete", parts[2], 0)
                    [] OTHER -> Direct("405 method not allowed")
        ELSE Direct("404 invalid firmware route")

\* FirmwareHandler.ServeHTTP
FirmwareServeHTTP(method, path) ==
    LET parts == filterEmpty(SubSeq(path, 3, Len(path)))
    IN  IF Len(parts) = 0 THEN Direct("400 missing firmware type")
        ELSE IF Len(parts) = 1 /\ method = "GET" THEN Gated("device", "list", "", 0)
        ELSE IF Len(parts) = 2 /\ parts[2] = "latest" /\ method = "GET"
             THEN Gated("device", "latest", "", 0)
        ELSE IF Len(parts) = 2
             THEN CASE method = "POST" -> Gated("admin", "upload", parts[2], 0)
                    [] method = "GET" -> Gated("device", "download", parts[2], 0)
                    [] method = "DELETE" -> Gated("admin", "delete", parts[2], 0)
                    [] OTHER -> Direct("405 method not allowed")
        ELSE Direct("404 invalid firmware route")

\* WebhookHandler.ServeHTTP: for /api/webhooks/{id} the gate comes before the
\* switch on the method
WebhookServeHTTP(method, path) ==
    IF path = <<"api", "webhooks">>
    THEN CASE method = "GET" -> Gated("admin", "webhooks.list", "", 0)
           [] method = "POST" -> Gated("admin", "webhooks.create", "", 0)
           [] OTHER -> Direct("405 method not allowed")
    ELSE LET id == IF Len(path) = 3 THEN ParseInt(path[3]) ELSE 0
         IN  IF id <= 0 THEN Direct("400 invalid id")
             ELSE CASE method = "PUT" -> Gated("admin", "webhooks.update", "", id)
                    [] method = "DELETE" -> Gated("admin", "webhooks.delete", "", id)
                    [] OTHER -> Gated("admin", "webhooks.405", "", id)

\* NewRouter: the patterns of the mux. /api/firmware without the slash is
\* redirected to the subtree; a path no pattern matches is not found.
Mux(method, path) ==
    IF path = <<"api", "health">> THEN Direct("200 health")
    ELSE IF Len(path) >= 3 /\ SubSeq(path, 1, 2) = <<"api", "firmware">>
         THEN FirmwareServeHTTP(method, path)
    ELSE IF path = <<"api", "firmware">> THEN Direct("301 /api/firmware/")
    ELSE IF Len(path) >= 2 /\ SubSeq(path, 1, 2) = <<"api", "webhooks">>
         THEN WebhookServeHTTP(method, path)
    ELSE Direct("404 page not found")

\* the mux hands the request to its handler's ServeHTTP, which answers at
\* once or enters the gate it wraps the method in
ServeHTTP(method, path) ==
    /\ pc = "idle"
    /\ LET r == Mux(method, path)
       IN  /\ route' = [NoRoute EXCEPT !.method = method, !.path = path,
                           !.gate = r.gate, !.next = r.handler, !.v = r.v,
                           !.id = r.id, !.resp = r.resp]
           /\ IF r.gate \in Gates
              THEN /\ pc' = "ip"
                   /\ gate' = r.gate
                   /\ remoteAddr' = RouteAddr
                   /\ UNCHANGED <<hdr, trace, authType, nextCalls, status, body>>
              ELSE UNCHANGED request
    /\ UNCHANGED <<config, service, repo, adminOps, handler, workers, crashed>>
    /\ UNCHANGED <<files, records>>

\* the gate has called next, and the wrapped method h has not run yet
Served(h) ==
    /\ pc = "done"
    /\ nextCalls = 1
    /\ route.next = h
    /\ route.op = ""

\* the method op has run and written resp; ev is the event it gave to
\* Dispatch ("" when it did not call Dispatch)
Done(op, resp, ev, dto) ==
    route' = [route EXCEPT !.op = op, !.resp = resp, !.event = ev, !.dto = dto]

\* FirmwareHandler.list
FirmwareList(dbOk) ==
    /\ Served("list")
    /\ Done("list", IF dbOk THEN "200" ELSE "500 db error", "", NoDto)
    /\ UNCHANGED <<files, records>>
    /\ UNCHANGED <<vars, service, repo, adminOps, handler, workers, crashed>>

\* FirmwareHandler.latest
FirmwareLatest(dbOk) ==
    /\ Served("latest")
    /\ Done("latest", IF ~dbOk \/ records = {} THEN "404 no firmware" ELSE "200", "", NoDto)
    /\ UNCHANGED <<files, records>>
    /\ UNCHANGED <<vars, service, repo, adminOps, handler, workers, crashed>>

\* FirmwareHandler.download
FirmwareDownload(dbOk) ==
    /\ Served("download")
    /\ Done("download",
            IF ~dbOk \/ route.v \notin records THEN "404 not found"
            ELSE IF route.v \notin files THEN "404 missing binary"
            ELSE "200", "", NoDto)
    /\ UNCHANGED <<files, records>>
    /\ UNCHANGED <<vars, service, repo, adminOps, handler, workers, crashed>>

\* FirmwareHandler.upload with Service.SaveFirmware: the form is read, the
\* binary written, the metadata upserted, and only then the event is given
\* to Dispatch. save tells how SaveFirmware goes: an error before the file is
\* in place, an error of Repo.Upsert after it, or none.
FirmwareUpload(form, save) ==
    /\ Served("upload")
    /\ IF form # "ok"
       THEN /\ Done("upload", "400 " \o form, "", NoDto)
            /\ UNCHANGED <<files, records>>
       ELSE IF save = "io error"
       THEN /\ Done("upload", "500 save failed", "", NoDto)
            /\ UNCHANGED <<files, records>>
       ELSE IF save = "db error"
       THEN /\ Done("upload", "500 save failed", "", NoDto)
            /\ files' = files \cup {route.v}
            /\ UNCHANGED records
       ELSE /\ Done("upload", "200", "firmware.uploaded", NoDto)
            /\ files' = files \cup {route.v}
            /\ records' = records \cup {route.v}
    /\ UNCHANGED <<vars, service, repo, adminOps, handler, workers, crashed>>

\* FirmwareHandler.delete: after Repo.Get the errors of os.RemoveAll and of
\* Repo.Delete are dropped, the event is given to Dispatch and the answer is
\* {"deleted": true}
FirmwareDelete(getOk, rmOk, delOk) ==
    /\ Served("delete")
    /\ IF ~getOk \/ route.v \notin records
       THEN /\ Done("delete", "404 not found", "", NoDto)
            /\ UNCHANGED <<files, records>>
       ELSE /\ files' = IF rmOk THEN files \ {route.v} ELSE files
            /\ records' = IF delOk THEN records \ {route.v} ELSE records
            /\ Done("delete", "200", "firmware.deleted", NoDto)
    /\ UNCHANGED <<vars, service, repo, adminOps, handler, workers, crashed>>

\* WebhookHandler.list
WebhookList(dbOk) ==
    /\ Served("webhooks.list")
    /\ Done("webhooks.list", IF dbOk THEN "200" ELSE "500 db error", "", NoDto)
    /\ UNCHANGED <<files, records>>
    /\ UNCHANGED <<vars, service, repo, adminOps, handler, workers, crashed>>

\* the row with the enabled flag of the request
CreateRowAsSent(dto) == [URL |-> dto.URL, Events |-> dto.Events, Enabled |-> dto.Enabled]

\* WebhookHandler.create: the row given to Repo.Create, dto.Enabled set to
\* true when it is false
CreateRow(dto) ==
    [URL |-> dto.URL, Events |-> dto.Events,
     Enabled |-> IF dto.Enabled = FALSE THEN TRUE ELSE dto.Enabled]

\* WebhookHandler.create. The row gets the smallest id the table has free;
\* MaxAdminOps caps the changes of the table in a run.
WebhookCreate(jsonOk, dto, dbOk) ==
    /\ Served("webhooks.create")
    /\ IF ~jsonOk
       THEN /\ Done("webhooks.create", "400 bad json", "", NoDto)
            /\ UNCHANGED <<repo, adminOps>>
       ELSE IF dto.URL = "" \/ Len(dto.Events) = 0
       THEN /\ Done("webhooks.create", "400 url/events required", "", dto)
            /\ UNCHANGED <<repo, adminOps>>
       ELSE IF ~dbOk
       THEN /\ Done("webhooks.create", "500 db error", "", dto)
            /\ UNCHANGED <<repo, adminOps>>
       ELSE /\ adminOps < MaxAdminOps
            /\ FreeIds # {}
            /\ LET id == CHOOSE x \in FreeIds : \A y \in FreeIds : x <= y
               IN  /\ repo' = [repo EXCEPT ![id] = CreateRow(dto)]
                   /\ route' = [route EXCEPT !.op = "webhooks.create", !.resp = "200",
                                             !.dto = dto, !.id = id]
            /\ adminOps' = adminOps + 1
    /\ UNCHANGED <<files, records>>
    /\ UNCHANGED <<vars, service, handler, workers, crashed>>

\* WebhookHandler.update: the row is overwritten with the fields as sent
WebhookUpdate(jsonOk, dto, dbOk) ==
    /\ Served("webhooks.update")
    /\ IF ~jsonOk
       THEN /\ Done("webhooks.update", "400 bad json", "", NoDto)
            /\ UNCHANGED <<repo, adminOps>>
       ELSE IF ~dbOk
       THEN /\ Done("webhooks.update", "500 db error", "", dto)
            /\ UNCHANGED <<repo, adminOps>>
       ELSE IF repo[route.id] = NoRow
       THEN /\ Done("webhooks.update", "200", "", dto)
            /\ UNCHANGED <<repo, adminOps>>
       ELSE /\ adminOps < MaxAdminOps
            /\ repo' = [repo EXCEPT ![route.id] =
                           [URL |-> dto.URL, Events |-> dto.Events, Enabled |-> dto.Enabled]]
            /\ adminOps' = adminOps + 1
            /\ Done("webhooks.update", "200", "", dto)
    /\ UNCHANGED <<files, records>>
    /\ UNCHANGED <<vars, service, handler, workers, crashed>>

\* WebhookHandler.delete
WebhookDelete(dbOk) ==
    /\ Served("webhooks.delete")
    /\ IF ~dbOk
       THEN /\ Done("webhooks.delete", "500 db error", "", NoDto)
            /\ UNCHANGED <<repo, adminOps>>
       ELSE IF repo[route.id] = NoRow
       THEN /\ Done("webhooks.delete", "200", "", NoDto)
            /\ UNCHANGED <<repo, adminOps>>
       ELSE /\ adminOps < MaxAdminOps
            /\ repo' = [repo EXCEPT ![route.id] = NoRow]
            /\ adminOps' = adminOps + 1
            /\ Done("webhooks.delete", "200", "", NoDto)
    /\ UNCHANGED <<files, records>>
    /\ UNCHANGED <<vars, service, handler, workers, crashed>>

\* WebhookHandler.ServeHTTP: the default of the switch behind the gate
WebhookMethodNotAllowed ==
    /\ Served("webhooks.405")
    /\ Done("webhooks.405", "405 method not allowed", "", NoDto)
    /\ UNCHANGED <<files, records>>
    /\ UNCHANGED <<vars, service, repo, adminOps, handler, workers, crashed>>

\* the response is complete: the gate's 401, or what the method wrote
Return ==
    /\ pc = "done"
    /\ nextCalls = 0 \/ route.op # ""
    /\ Finish

\* the bodies sent to create and update
Dtos ==
    [URL : {"", "http://a/hook"}, Events : {<<>>, <<"firmware.uploaded">>},
     Enabled : BOOLEAN]

RoutesNext ==
    \/ \E method \in Methods, path \in PathTexts : ServeHTTP(method, path)
    \/ CheckIP
    \/ CheckKey
    \/ Return
    \/ \E dbOk \in BOOLEAN : FirmwareList(dbOk)
    \/ \E dbOk \in BOOLEAN : FirmwareLatest(dbOk)
    \/ \E dbOk \in BOOLEAN : FirmwareDownload(dbOk)
    \/ \E form \in {"ok", "invalid multipart", "missing file field"},
          save \in {"ok", "io error", "db error"} : FirmwareUpload(form, save)
    \/ \E getOk, rmOk, delOk \in BOOLEAN : FirmwareDelete(getOk, rmOk, delOk)
    \/ \E dbOk \in BOOLEAN : WebhookList(dbOk)
    \/ \E jsonOk, dbOk \in BOOLEAN, dto \in Dtos : WebhookCreate(jsonOk, dto, dbOk)
    \/ \E jsonOk, dbOk \in BOOLEAN, dto \in Dtos : WebhookUpdate(jsonOk, dto, dbOk)
    \/ \E dbOk \in BOOLEAN : WebhookDelete(dbOk)
    \/ WebhookMethodNotAllowed

\* the API with both keys configured, OIDC off and no allowlist
SpecRoutes == InitKeys /\ [][RoutesNext]_allVars

(***************************************************************************)
(* Claims about the Authorization header, the keys and the routes          *)
(***************************************************************************)
\* the Authorization header sent is two parts, "bearer" in some letter case
\* and a non-empty token
BearerShaped ==
    /\ Len(SentAuthorization) = 2
    /\ SentAuthorization[1] \in {"Bearer", "BEARER", "bearer"}
    /\ SentAuthorization[2] # ""

\* C25: once verifyJWT has read the Authorization header, VerifyToken is
\* called exactly when the header is "<bearer> <token>": two parts between
\* spaces, the first "bearer" in any letter case, the second not empty. For
\* any other header (absent, empty, another scheme, one part, three parts, an
\* empty token) the JWT step fails with no call of the verifier, and the
\* failure does not deny: the gate goes on to the static key, and the
\* request is allowed exactly when its own key header carries the configured
\* non-empty key.
C25_MalformedBearerSkipsVerifier ==
    ("Authorization" \in DOMAIN hdr) =>
       /\ ("VerifyToken" \in Range(trace)) <=> BearerShaped
       /\ ~BearerShaped =>
             /\ authType # "jwt"
             /\ "HasRole" \notin Range(trace)
             /\ pc \in {"key", "done"}
             /\ pc = "done" =>
                   /\ Allowed <=> KeyPassed
                   /\ OwnKey # EmptyString => "keyCompare" \in Range(trace)

\* a request whose Authorization header has a third part was let in by its
\* key, the verifier never called
C25_Witness ==
    /\ Allowed
    /\ authType = "api_key"
    /\ Len(SentAuthorization) = 3
    /\ "verifyJWT" \in Range(trace)
    /\ "VerifyToken" \notin Range(trace)

\* C26: the two keys are not interchangeable. With OIDC off, no allowlist
\* and the distinct non-empty keys KeyA and KeyD configured, a gate reads no
\* header but its own key header, so what the request carries in any other
\* header has no effect. The admin gate denies a request whose X-Admin-Key
\* is absent or carries the device key (the device key presented in any
\* header), and the device gate denies a request whose X-Device-Key is
\* absent or carries the admin key (the admin key presented in X-Admin-Key
\* only, or in the wrong header).
C26_KeysNotInterchangeable ==
    (Decided /\ ~OIDCOn /\ cfgNoAuthIPs = <<>> /\ AdminKey = KeyA /\ DeviceKey = KeyD) =>
       /\ DOMAIN hdr = {OwnKeyHeader}
       /\ (gate = "admin" /\ hdr["X-Admin-Key"] \in {<<>>, <<KeyD>>}) => Denied
       /\ (gate = "device" /\ hdr["X-Device-Key"] \in {<<>>, <<KeyA>>}) => Denied
       /\ Denied => status = StatusUnauthorized /\ body = DeniedBody(gate) /\ nextCalls = 0

\* the admin gate has denied a request that carried the valid device key in
\* the header the admin gate reads
C26_Witness ==
    /\ Denied
    /\ gate = "admin"
    /\ ~OIDCOn /\ cfgNoAuthIPs = <<>> /\ AdminKey = KeyA /\ DeviceKey = KeyD
    /\ hdr["X-Admin-Key"] = <<KeyD>>

\* the failed attempts of a worker that are followed by another attempt:
\* 0-based indices i below the retries in force
FailedWithMore(w) ==
    {i \in 0..(Len(workers[w].res) - 1) :
        /\ workers[w].res[i + 1] # "2xx"
        /\ i < (IF Retries < 0 THEN 0 ELSE Retries)}

C28_NonPositiveRetriesOneAttempt ==
    Retries <= 0 =>
       \A w \in 1..Len(workers) :
          LET wk == workers[w]
          IN  /\ wk.waits = <<>>
              /\ wk.pc \in {"start", "inflight", "done"}
              /\ wk.attempt = 0
              /\ Len(wk.reqs) = (IF wk.pc = "start" THEN 0 ELSE 1)
              /\ Len(wk.res) = (IF wk.pc = "done" THEN 1 ELSE 0)

\* with Retries = -1 a worker has ended on the failure of its only request
C28_Witness ==
    /\ Retries = -1
    /\ \E w \in 1..Len(workers) :
          /\ workers[w].pc = "done"
          /\ workers[w].res = <<"error">>
          /\ Len(workers[w].reqs) = 1
          /\ workers[w].waits = <<>>

\* no delivery goroutine is left running: each has returned from deliver, or
\* the process has ended
Terminated == crashed \/ \A w \in 1..Len(workers) : workers[w].pc = "done"

\* C24 as stated: every delivery worker eventually terminates, for every
\* configured value of the timeout and of Retries.
C24_EveryWorkerTerminates == <>Terminated

\* C24 for a timeout above zero: every attempt ends by the client's
\* deadline, so the worker eventually terminates, after at most
\* max(Retries, 0) + 1 attempts.
C24_TerminatesWithDeadline ==
    (TimeoutSec > 0) =>
       <>(Terminated /\ \A w \in 1..Len(workers) :
                           Len(workers[w].reqs) <= (IF Retries < 0 THEN 0 ELSE Retries) + 1)

\* with timeout_sec 0 a request is out and the client has set no deadline
\* for it
C24_Witness ==
    /\ TimeoutSec = 0
    /\ \E w \in 1..Len(workers) :
          /\ workers[w].pc = "inflight"
          /\ ~ENABLED Timeout(w)

\* C27 as stated: a webhook whose URL http.NewRequest rejects makes only its
\* own delivery fail: its worker sends nothing, and the process goes on
\* running.
C27_BadURLFailsAlone ==
    \A w \in 1..Len(workers) :
       NewRequestErr(workers[w].url) => (workers[w].reqs = <<>> /\ ~crashed)

\* C27, what does hold: a worker whose URL is rejected sends nothing and
\* never returns from deliver; the process ends at its first attempt, and
\* from then on no request is served, no event dispatched and no other
\* worker takes a step.
C27_BadURLEndsProcess ==
    /\ \A w \in 1..Len(workers) :
          NewRequestErr(workers[w].url) =>
             /\ workers[w].reqs = <<>>
             /\ workers[w].res = <<>>
             /\ workers[w].pc = "start"
    /\ crashed =>
          /\ \E w \in 1..Len(workers) : NewRequestErr(workers[w].url)
          /\ ~ENABLED HooksNext

\* the upload had been answered and a further upload or delete was still to
\* come when the worker of a stored, rejected URL ended the process
C27_Witness ==
    /\ crashed
    /\ hpc = "idle"
    /\ response = "200"
    /\ dispatches < MaxDispatches
    /\ \E id \in 1..MaxHooks : repo[id] # NoRow /\ NewRequestErr(repo[id].URL)
    /\ \E w \in 1..Len(workers) : NewRequestErr(workers[w].url) /\ workers[w].reqs = <<>>

\* C30: the deliveries of two events to the same subscriber are not ordered.
\* While the process runs, the worker of the later event can send its
\* request whenever it stands before an attempt, wherever the worker of the
\* earlier event to the same URL stands: before its first request, waiting
\* for an answer, or asleep between two retries.
C30_NoOrderBetweenEvents ==
    \A v, w \in 1..Len(workers) :
       (/\ ~crashed
        /\ workers[v].url = workers[w].url
        /\ workers[v].d < workers[w].d
        /\ workers[w].pc \in {"start", "sleep"}) => ENABLED Send(w)

\* the subscriber has the request of the second event while the worker of
\* the first event, one request failed, sleeps before its retry
C30_Witness ==
    \E v, w \in 1..Len(workers) :
       /\ workers[v].url = workers[w].url
       /\ workers[v].id = workers[w].id
       /\ workers[v].d < workers[w].d
       /\ workers[v].event # workers[w].event
       /\ workers[v].pc = "sleep"
       /\ Len(workers[v].reqs) = 1
       /\ workers[w].pc = "inflight"
       /\ Len(workers[w].reqs) = 1

\* C21 as stated: an event is given to Dispatch only after the business
\* operation succeeded: firmware.uploaded only when the binary and the
\* metadata of the version are stored, firmware.deleted only when both have
\* actually been removed; a request that was denied or failed dispatches
\* nothing.
C21_EventOnlyAfterSuccess ==
    /\ route.event = "firmware.uploaded" =>
          (route.op = "upload" /\ route.v \in files /\ route.v \in records)
    /\ route.event = "firmware.deleted" =>
          (route.op = "delete" /\ route.v \notin files /\ route.v \notin records)
    /\ route.resp # "200" => route.event = ""

\* C21, what does hold: firmware.uploaded is dispatched only by an upload
\* whose SaveFirmware returned no error, the binary and the metadata then
\* being stored; firmware.deleted only by a delete whose Repo.Get found the
\* version, whatever became of the two removals; both only behind the admin
\* gate and with the success response, and a request that was denied or
\* failed dispatches nothing.
C21_EventOnlyAfterSaveOrLookup ==
    /\ route.event \in {"", "firmware.uploaded", "firmware.deleted"}
    /\ route.event = "firmware.uploaded" =>
          (route.op = "upload" /\ route.v \in files /\ route.v \in records)
    /\ route.event = "firmware.deleted" => route.op = "delete"
    /\ route.event # "" => (route.gate = "admin" /\ route.resp = "200")
    /\ route.resp # "200" => route.event = ""
    /\ route.op = "" => route.event = ""

\* firmware.deleted has been dispatched and {"deleted": true} answered while
\* the binary and the metadata of the version are both still there
C21_Witness ==
    /\ route.op = "delete"
    /\ route.event = "firmware.deleted"
    /\ route.resp = "200"
    /\ route.v \in files
    /\ route.v \in records

\* the gate the README documents for each operation
DocumentedGate(op) ==
    IF op \in {"upload", "delete", "webhooks.list", "webhooks.create",
               "webhooks.update", "webhooks.delete", "webhooks.405"}
    THEN "admin"
    ELSE IF op \in {"list", "latest", "download"} THEN "device"
    ELSE ""

\* C22: every firmware and webhook operation runs only behind its documented
\* gate. A handler method runs only in a step taken while that gate has
\* called next for this request (upload, delete and the four webhook
\* operations behind the admin gate; list, latest and download behind the
\* device gate); the firmware storage, the metadata and the webhook table
\* change only in such a step of an admin operation; a request the handler
\* answers without a gate (400, 404, 405, health) and a request the gate
\* denied run no method.
C22_EveryOperationGated ==
    [][/\ (route'.op # "" /\ route'.op # route.op) =>
             /\ pc = "done" /\ nextCalls = 1 /\ status = 0
             /\ DocumentedGate(route'.op) = gate
             /\ gate = route.gate
             /\ pc' = pc
       /\ (files' # files \/ records' # records \/ repo' # repo) =>
             /\ route.op = ""
             /\ route'.op \in {"upload", "delete", "webhooks.create",
                               "webhooks.update", "webhooks.delete"}
             /\ gate = "admin" /\ pc = "done" /\ nextCalls = 1
       /\ route'.gate = "" => route'.op = ""
       /\ (pc' = "done" /\ nextCalls' = 0) => route'.op = ""]_allVars

\* a device has downloaded, behind the device gate and by its key, a version
\* an admin uploaded
C22_Witness ==
    /\ route.op = "download"
    /\ route.resp = "200"
    /\ gate = "device"
    /\ pc = "done"
    /\ authType = "api_key"
    /\ hdr["X-Device-Key"] = <<KeyD>>

\* C29: webhook creation stores the row enabled whatever the enabled flag
\* of the request, and answers 400 with the table unchanged when the URL is
\* empty or the event list is empty; the Enabled column of a row changes
\* only in an update. A create step either leaves the table as it is (and
\* then has not answered 200) or adds exactly one row, to an id that was
\* free, with the URL and events of the request and Enabled true.
C29_CreateStoresEnabled ==
    [][/\ (route'.op = "webhooks.create" /\ route.op = "") =>
             /\ (route'.dto.URL = "" \/ Len(route'.dto.Events) = 0) =>
                   (repo' = repo /\ route'.resp \in {"400 url/events required", "400 bad json"})
             /\ route'.resp = "200" =>
                   /\ repo[route'.id] = NoRow
                   /\ repo' = [repo EXCEPT ![route'.id] =
                                  [URL |-> route'.dto.URL, Events |-> route'.dto.Events,
                                   Enabled |-> TRUE]]
                   /\ route'.dto.URL # "" /\ Len(route'.dto.Events) > 0
             /\ route'.resp # "200" => repo' = repo
       /\ \A id \in 1..MaxHooks :
             (repo[id] # NoRow /\ repo'[id] # NoRow /\ repo'[id].Enabled # repo[id].Enabled) =>
                (route'.op = "webhooks.update" /\ route'.id = id)
       /\ \A id \in 1..MaxHooks :
             (repo[id] = NoRow /\ repo'[id] # NoRow) =>
                (route'.op = "webhooks.create" /\ repo'[id].Enabled)]_allVars

\* a create whose body said "enabled": false has answered 200 and its row is
\* stored enabled
C29_Witness ==
    /\ route.op = "webhooks.create"
    /\ route.resp = "200"
    /\ route.dto.Enabled = FALSE
    /\ repo[route.id] # NoRow
    /\ repo[route.id].Enabled = TRUE
    /\ repo[route.id].URL = route.dto.URL
=============================================================================
